---- MODULE Spec2Model ----
(***************************************************************************)
(* News-perspectives pipeline: ModelAnalyzer (agents/news_perspectives/    *)
(* model_analyzer.py) and the perspective synthesizer (agents/             *)
(* news_perspectives/perspective_synthesizer.py), which joins the          *)
(* per-model artifacts by article and computes the consensus statistics.   *)
(* analyze_article = bounded retry on rate limits +                        *)
(* extraction of a structured analysis from free-form completion text;     *)
(* analyze_articles = the sequential, paced batch; run = load, analyze,    *)
(* single write of the per-model artifact.  The two repair passes          *)
(* (fix_analysis_json.py, fix_json_fences.py) rewrite the records of a     *)
(* per-model artifact in place, and the news fetcher (agents/              *)
(* news_perspectives/news_fetcher.py) writes the fetch-stage artifact the  *)
(* analyzers read.                                                         *)
(*                                                                         *)
(* Specifications: Spec (one ModelAnalyzer run), SpecExtract               *)
(* (analyze_article on one completion text), SpecSynthesizer (the          *)
(* synthesizer's main), SpecConsensus (the synthesis functions on sample   *)
(* artifacts), SpecAgain (main run again on unchanged artifacts),          *)
(* SpecRepair (repair passes on one artifact), SpecPipeline (fetch,        *)
(* analyzers, synthesizer).                                                *)
(*                                                                         *)
(* Text is a sequence of lexemes.  A lexeme is either one character that   *)
(* the code inspects ("{", "}", "[", "]", ",", a space, a newline "NL",    *)
(* the fence marker "FENCE" of three backticks) or a run of characters     *)
(* the code never looks into: "sum" is the member  "summary": "s" ,  "kv"  *)
(* is the member  "k": "v" ,  "k:" is the key prefix  "k":  (a value       *)
(* follows),  "str" is a JSON string literal,  "1" a JSON number,  "word"  *)
(* a word of prose and "json" the language tag of a fence.  "q" is one     *)
(* double quote: a string literal whose characters the code does inspect   *)
(* (braces) is written  "q", its characters, "q".  In stored records       *)
(* "s:" and "kp:" are the key prefixes  "summary":  and  "key_points": ,   *)
(* "esum" is the member "sum" with its quotes escaped inside a string,     *)
(* "eNL" an escaped newline, "JR" the preamble  **JSON Response** ,        *)
(* "long" a run of 100 letters and "char" one character of a text.         *)
(*                                                                         *)
(* Python values are tagged records: Str(s) a str (s a text), List(l),     *)
(* Dict(d) with d a function from keys to values, Num(n), NoneValue.  The  *)
(* payload field is named after the tag, so that two values of different   *)
(* types are unequal rather than incomparable.                             *)
(***************************************************************************)
EXTENDS Integers, Sequences, FiniteSets, TLC

VARIABLES
  pc,            \* position of the run: see the actions
  alive,         \* FALSE once the process has been terminated from outside
  input_exists,  \* whether the fetch-stage artifact (input_file) is on disk
  articles,      \* run: the loaded Items
  i,             \* analyze_articles: index (1-based) of the item in hand
  attempt,       \* analyze_article: the retry loop's attempt (0-based)
  analysis,      \* analyze_articles: what analyze_article returned for item i
  analyzed,      \* analyze_articles: the records appended so far
  total_tokens,  \* analyze_articles: the token counters
  clock,         \* wall clock, in seconds slept since the run started
  disk,          \* the per-model artifact at output_file
  log,           \* history: every transport request, sleep and file write, in order
  xpc, xin, xout, \* analyze_article applied to one successful response
  spc,           \* position of the synthesizer's main
  model_index,   \* main: index (1-based) in `models` of the artifact to load next
  artifacts,     \* the per-model artifacts on disk, in the order of `models`
  all_analyses,  \* main: what load_analysis returned for the artifacts found
  skipped,       \* history: the indexes of the artifacts load_analysis gave None for
  synthesized,   \* main: what synthesize_perspectives returned
  consensus,     \* main: what calculate_consensus returned
  perspectives,  \* the synthesized artifact at data/news_perspectives/perspectives.json
  repairs,       \* history: one entry per run of a repair pass on an artifact
  fpc,           \* position of the news fetcher's main
  topic_index,   \* fetcher main: index (1-based) in `topics` of the topic to fetch next
  utcnow,        \* the unix second the clock shows
  all_articles,  \* fetcher main: the Items fetched so far, all topics
  news           \* the fetch-stage artifact at data/news_perspectives/news.json

\* the state of a ModelAnalyzer run and of the synthesizer
analyzerVars == <<pc, alive, input_exists, articles, i, attempt, analysis, analyzed,
                  total_tokens, clock, disk, log, xpc, xin, xout>>
synthVars == <<spc, model_index, artifacts, all_analyses, skipped, synthesized,
               consensus, perspectives>>

repairVars == <<repairs>>

\* the state of the news fetcher
fetchVars == <<fpc, topic_index, utcnow, all_articles, news>>

vars == <<analyzerVars, synthVars, repairVars, fetchVars>>

----------------------------------------------------------------------------
(* Bounds of the model *)

\* most Items in the fetch-stage artifact
MaxItems == 2
\* longest core of a generated completion text, in lexemes
MaxCoreLen == 3
\* longest prose before or after a JSON object, in lexemes
MaxProseLen == 2
\* most per-model artifacts handed to the synthesis functions
MaxLoaded == 4
\* most records in the artifact that is repaired
MaxRecords == 2
\* most runs of a repair pass in a row
MaxRuns == 2

\* NEWS_MAX_ARTICLES_PER_TOPIC: items taken from one topic's feed
MaxPerTopic == 2

\* the unix seconds a fetch may span, counted from its first one
MaxSeconds == 2

----------------------------------------------------------------------------
(* Python values *)

Str(s) == [t |-> "str", s |-> s]
Lit(w) == Str(<<w>>)
Num(n) == [t |-> "int", n |-> n]
List(l) == [t |-> "list", l |-> l]
Dict(d) == [t |-> "dict", d |-> d]
NoneValue == [t |-> "None"]
EmptyDict == <<>>
\* d[k] = v
SetItem(d, k, v) == (k :> v) @@ d

----------------------------------------------------------------------------
(* str operations *)

Whitespace == {" ", "NL"}

RECURSIVE LStrip(_)
LStrip(s) ==
  IF s # <<>> /\ Head(s) \in Whitespace THEN LStrip(Tail(s)) ELSE s

RECURSIVE RStrip(_)
RStrip(s) ==
  IF s # <<>> /\ s[Len(s)] \in Whitespace
  THEN RStrip(SubSeq(s, 1, Len(s) - 1)) ELSE s

\* s.strip()
Strip(s) == RStrip(LStrip(s))

\* s.startswith of the fence marker
StartsWithFence(s) == s # <<>> /\ s[1] = "FENCE"

\* s.find(c), 1-based; 0 when c does not occur (Python's -1)
RECURSIVE FindFrom(_, _, _)
FindFrom(s, c, n) ==
  IF n > Len(s) THEN 0 ELSE IF s[n] = c THEN n ELSE FindFrom(s, c, n + 1)

Find(s, c) == FindFrom(s, c, 1)

\* s.split('\n'): at least one line, possibly empty
RECURSIVE Split(_)
Split(s) ==
  LET n == Find(s, "NL") IN
  IF n = 0 THEN <<s>>
  ELSE <<SubSeq(s, 1, n - 1)>> \o Split(SubSeq(s, n + 1, Len(s)))

\* '\n'.join(lines)
RECURSIVE Join(_)
Join(lines) ==
  IF lines = <<>> THEN <<>>
  ELSE IF Len(lines) = 1 THEN lines[1]
  ELSE lines[1] \o <<"NL">> \o Join(Tail(lines))

----------------------------------------------------------------------------
(* json.loads on lexemes *)

ParseFail == [ok |-> FALSE, val |-> NoneValue, next |-> 0]
ParseOk(v, n) == [ok |-> TRUE, val |-> v, next |-> n]

RECURSIVE SkipWs(_, _)
SkipWs(s, n) ==
  IF n <= Len(s) /\ s[n] \in Whitespace THEN SkipWs(s, n + 1) ELSE n

\* lexemes that hold a double quote of their own
Quoted == {"q", "sum", "kv", "k:", "str", "s:", "kp:"}

\* lexemes that are a key and its colon, and the key
KeyLexemes == {"k:", "s:", "kp:"}
KeyOf(c) == CASE c = "s:" -> "summary" [] c = "kp:" -> "key_points" [] OTHER -> "k"

\* the characters an escape sequence inside a string literal stands for:
\* "esum" is the member "sum" with each quote escaped, "eNL" is \n
Unescape(c) == CASE c = "esum" -> "sum" [] c = "eNL" -> "NL" [] OTHER -> c

\* a string literal after its opening quote "q", acc its characters so far:
\* it ends at the next quote; a raw newline inside it is an invalid control
\* character, and after a quote that opens another lexeme the rest of that
\* lexeme is no JSON token
RECURSIVE ParseString(_, _, _)
ParseString(s, n, acc) ==
  IF n > Len(s) THEN ParseFail
  ELSE IF s[n] = "q" THEN ParseOk(Str(acc), n + 1)
  ELSE IF s[n] = "NL" \/ s[n] \in Quoted THEN ParseFail
  ELSE ParseString(s, n + 1, Append(acc, Unescape(s[n])))

RECURSIVE ParseValue(_, _)
RECURSIVE ParseElements(_, _, _)
RECURSIVE ParseMembers(_, _, _)

\* one JSON value starting at or after position n0
ParseValue(s, n0) ==
  LET n == SkipWs(s, n0) IN
  IF n > Len(s) THEN ParseFail
  ELSE CASE s[n] = "1" -> ParseOk(Num(1), n + 1)
         [] s[n] = "str" -> ParseOk(Lit("v"), n + 1)
         [] s[n] = "q" -> ParseString(s, n + 1, <<>>)
         [] s[n] = "[" ->
              LET m == SkipWs(s, n + 1) IN
              IF m <= Len(s) /\ s[m] = "]" THEN ParseOk(List(<<>>), m + 1)
              ELSE ParseElements(s, m, <<>>)
         [] s[n] = "{" ->
              LET m == SkipWs(s, n + 1) IN
              IF m <= Len(s) /\ s[m] = "}" THEN ParseOk(Dict(EmptyDict), m + 1)
              ELSE ParseMembers(s, m, EmptyDict)
         [] OTHER -> ParseFail

\* the elements of an array after "[", acc the ones already parsed
ParseElements(s, n, acc) ==
  LET e == ParseValue(s, n) IN
  IF ~e.ok THEN ParseFail
  ELSE LET m == SkipWs(s, e.next) IN
       IF m > Len(s) THEN ParseFail
       ELSE IF s[m] = "," THEN ParseElements(s, m + 1, Append(acc, e.val))
       ELSE IF s[m] = "]" THEN ParseOk(List(Append(acc, e.val)), m + 1)
       ELSE ParseFail

\* the members of an object after "{", acc the dict so far (a later
\* duplicate key replaces the earlier value)
ParseMembers(s, n0, acc) ==
  LET n == SkipWs(s, n0)
      mem == IF n > Len(s) THEN ParseFail
             ELSE CASE s[n] = "sum" -> ParseOk(<<"summary", Lit("s")>>, n + 1)
                    [] s[n] = "kv" -> ParseOk(<<"k", Lit("v")>>, n + 1)
                    [] s[n] \in KeyLexemes ->
                         LET v == ParseValue(s, n + 1) IN
                         IF v.ok THEN ParseOk(<<KeyOf(s[n]), v.val>>, v.next)
                         ELSE ParseFail
                    [] OTHER -> ParseFail
  IN
  IF ~mem.ok THEN ParseFail
  ELSE LET d == SetItem(acc, mem.val[1], mem.val[2])
           m == SkipWs(s, mem.next)
       IN IF m > Len(s) THEN ParseFail
          ELSE IF s[m] = "," THEN ParseMembers(s, m + 1, d)
          ELSE IF s[m] = "}" THEN ParseOk(Dict(d), m + 1)
          ELSE ParseFail

\* json.loads(s): ok = FALSE stands for JSONDecodeError
Loads(s) ==
  LET r == ParseValue(s, 1) IN
  IF r.ok /\ SkipWs(s, r.next) > Len(s) THEN r ELSE ParseFail

----------------------------------------------------------------------------
(* ModelAnalyzer.analyze_article: from the completion text to the Analysis *)

\* the analyzer's identity (gpt_analyzer.main)
model_name == Lit("openai/gpt-4o")
display_name == Lit("GPT-4o")

\* characters of the raw text kept as the fallback summary
SummaryLimit == 300

\* content[:n]
Prefix(s, n) == SubSeq(s, 1, IF Len(s) < n THEN Len(s) ELSE n)

\* the fence strip that drops one line too many after the opening fence
StripFencesOffByOne(content) ==
  IF StartsWithFence(Strip(content))
  THEN LET lines0 == Split(Strip(content))
           lines1 == IF StartsWithFence(lines0[1]) THEN SubSeq(lines0, 3, Len(lines0)) ELSE lines0
           lines2 == IF lines1 # <<>> /\ Strip(lines1[Len(lines1)]) = <<"FENCE">>
                     THEN SubSeq(lines1, 1, Len(lines1) - 1)
                     ELSE lines1
       IN Join(lines2)
  ELSE content

\* strip markdown code fences if present
StripFences(content) ==
  IF StartsWithFence(Strip(content))
  THEN LET lines0 == Split(Strip(content))
           lines1 == IF StartsWithFence(lines0[1]) THEN Tail(lines0) ELSE lines0
           lines2 == IF lines1 # <<>> /\ Strip(lines1[Len(lines1)]) = <<"FENCE">>
                     THEN SubSeq(lines1, 1, Len(lines1) - 1)
                     ELSE lines1
       IN Join(lines2)
  ELSE content

\* the scan that stops at the first closing brace, whatever the depth
RECURSIVE ScanBracesFirstClose(_, _, _)
ScanBracesFirstClose(content, n, brace_count) ==
  IF n > Len(content) THEN 0
  ELSE IF content[n] = "}" THEN n
  ELSE ScanBracesFirstClose(content, n + 1, brace_count)

\* the scan for the brace matching the one at json_start: the position of
\* the closing brace (json_end - 1 in the code), 0 when the count never
\* returns to 0 (json_end = -1)
RECURSIVE ScanBraces(_, _, _)
ScanBraces(content, n, brace_count) ==
  IF n > Len(content) THEN 0
  ELSE IF content[n] = "{" THEN ScanBraces(content, n + 1, brace_count + 1)
  ELSE IF content[n] = "}"
       THEN IF brace_count - 1 = 0 THEN n
            ELSE ScanBraces(content, n + 1, brace_count - 1)
  ELSE ScanBraces(content, n + 1, brace_count)

\* the object made from text that does not parse
Fallback(content) ==
  Dict([summary |-> Str(Prefix(content, SummaryLimit)),
        key_points |-> List(<<Str(content)>>),
        sentiment |-> Lit("neutral"),
        confidence |-> Lit("medium"),
        bias_check |-> Lit("Unable to parse structured response"),
        missing_context |-> Str(<<>>),
        implications |-> Str(<<>>)])

\* whether json.loads(content) succeeds, so that the value is taken as is
DirectParse(content) == Loads(content).ok

\* the substring from the first "{" to its matching "}", parsed
BraceParse(content) ==
  LET json_start == Find(content, "{")
      json_last == IF json_start > 0 THEN ScanBraces(content, json_start, 0) ELSE 0
  IN IF json_start > 0 /\ json_last > 0
     THEN Loads(SubSeq(content, json_start, json_last))
     ELSE ParseFail

\* try to parse as JSON, fallback to text: the value bound to `analysis`
\* and the step that produced it
ParseContent(content) ==
  IF DirectParse(content)
  THEN [val |-> Loads(content).val, quality |-> "clean"]
  ELSE IF BraceParse(content).ok
  THEN [val |-> BraceParse(content).val, quality |-> "recovered"]
  ELSE [val |-> Fallback(content), quality |-> "fallback"]

\* response.usage: the attribute may be missing, None, or the counters
UsageKinds == {"absent", "none", "u1"}
UsageOf(u) ==
  IF u = "u1"
  THEN [prompt_tokens |-> 2, completion_tokens |-> 1, total_tokens |-> 3]
  ELSE [prompt_tokens |-> 0, completion_tokens |-> 0, total_tokens |-> 0]

Exc(type, msg) == [type |-> type, msg |-> msg]
NoExc == Exc("", <<>>)
Returns(d) == [ok |-> TRUE, value |-> d, exc |-> NoExc]
Raises(e) == [ok |-> FALSE, value |-> EmptyDict, exc |-> e]

\* add metadata: item assignment on the parsed value
AddMetadata(val, now) ==
  IF val.t = "dict"
  THEN Returns(SetItem(SetItem(SetItem(val.d, "model", display_name),
                               "model_id", model_name),
                       "analyzed_at", Num(now)))
  ELSE Raises(Exc("TypeError", <<"no item assignment: ", val.t>>))

\* token usage
AddTokenUsage(d, usage) ==
  IF usage = "absent" THEN Returns(d)
  ELSE IF usage = "none"
  THEN Raises(Exc("AttributeError", <<"NoneType has no attribute prompt_tokens">>))
  ELSE Returns(SetItem(d, "token_usage",
         Dict([prompt_tokens |-> Num(UsageOf(usage).prompt_tokens),
               completion_tokens |-> Num(UsageOf(usage).completion_tokens),
               total_tokens |-> Num(UsageOf(usage).total_tokens)])))

\* the body of the try block after the retry loop
BuildAnalysis(content, usage, now) ==
  LET a == AddMetadata(ParseContent(StripFences(content)).val, now) IN
  IF a.ok THEN AddTokenUsage(a.value, usage) ELSE a

\* faulty variant of ErrorAnalysis: the failure reads as a neutral vote
ErrorAnalysisNeutral(e, now) ==
  [model |-> display_name,
   model_id |-> model_name,
   error |-> Str(e.msg),
   error_type |-> Lit(e.type),
   analyzed_at |-> Num(now),
   summary |-> Str(<<"Analysis failed: ">> \o e.msg),
   sentiment |-> Lit("neutral")]

\* the except block: the Analysis returned for exception e
ErrorAnalysis(e, now) ==
  [model |-> display_name,
   model_id |-> model_name,
   error |-> Str(e.msg),
   error_type |-> Lit(e.type),
   analyzed_at |-> Num(now),
   summary |-> Str(<<"Analysis failed: ">> \o e.msg),
   sentiment |-> Lit("unknown")]

\* what analyze_article returns once the try block ended as r
Returned(r, now) == IF r.ok THEN r.value ELSE ErrorAnalysis(r.exc, now)

----------------------------------------------------------------------------
(* The transport and the files *)

\* faulty variant of max_retries: one attempt too many
max_retries_more == 3 + 1

\* the retry policy of analyze_article
max_retries == 3
base_delay == 2
\* seconds slept between two articles
pacing_delay == 1

\* the k-th Item of the fetch-stage artifact
Item(k) == [id |-> k, title |-> k]

\* completion texts the service answers with during a run: an object, JSON
\* that is not an object, text that does not parse
SampleTexts ==
  { <<"{", "sum", "}">>,
    <<"[", "1", "]">>,
    <<"{", "sum">> }

\* failures of the transport other than the rate-limit signal
OtherFailures == {"APIConnectionError", "AuthenticationError"}

\* str(e) of a transport exception
Message(type) == <<type, " raised by the transport">>

\* the per-model artifact at output_file
NoFile == [kind |-> "absent"]
Truncated == [kind |-> "truncated"]
Written(output) == [kind |-> "written", output |-> output]

ZeroTokens == [prompt_tokens |-> 0, completion_tokens |-> 0, total_tokens |-> 0]

\* one entry of the history
Event(ev, item, n, what, content, usage) ==
  [ev |-> ev, item |-> item, n |-> n, what |-> what, content |-> content,
   usage |-> usage, at |-> clock]

\* the news fetcher is not run
FetchOff ==
  /\ fpc = "off"
  /\ topic_index = 0
  /\ utcnow = 0
  /\ all_articles = <<>>
  /\ news = [kind |-> "absent"]

\* the synthesizer is not run
SynthOff ==
  /\ spc = "off"
  /\ model_index = 0
  /\ artifacts = <<>>
  /\ all_analyses = <<>>
  /\ skipped = <<>>
  /\ synthesized = <<>>
  /\ consensus = <<>>
  /\ perspectives = NoFile
  /\ repairs = <<>>
  /\ FetchOff

Idle == [content |-> <<>>, quality |-> "", val |-> NoneValue, analysis |-> EmptyDict]

Init ==
  /\ pc = "start"
  /\ alive = TRUE
  /\ input_exists \in BOOLEAN
  /\ articles = <<>>
  /\ i = 0
  /\ attempt = 0
  /\ analysis = EmptyDict
  /\ analyzed = <<>>
  /\ total_tokens = ZeroTokens
  /\ clock = 0
  /\ disk = NoFile
  /\ log = <<>>
  /\ xpc = "idle"
  /\ xin = <<>>
  /\ xout = Idle
  /\ SynthOff

----------------------------------------------------------------------------
(* ModelAnalyzer.run, analyze_articles and analyze_article, step by step *)

\* run: load_input_data finds the input file
LoadInput ==
  /\ pc = "start"
  /\ alive
  /\ input_exists
  /\ \E n \in 0..MaxItems : articles' = [k \in 1..n |-> Item(k)]
  /\ analyzed' = <<>>
  /\ total_tokens' = ZeroTokens
  /\ i' = 1
  /\ pc' = "loop"
  /\ UNCHANGED <<alive, input_exists, attempt, analysis, clock, disk, log, xpc, xin, xout, synthVars, repairVars, fetchVars>>

\* run: load_input_data raises FileNotFoundError, which run re-raises
LoadInputMissing ==
  /\ pc = "start"
  /\ alive
  /\ ~input_exists
  /\ pc' = "raised"
  /\ UNCHANGED <<alive, input_exists, articles, i, attempt, analysis, analyzed,
                 total_tokens, clock, disk, log, xpc, xin, xout, synthVars, repairVars, fetchVars>>

\* analyze_articles: the next article enters analyze_article
BeginArticle ==
  /\ pc = "loop"
  /\ alive
  /\ i <= Len(articles)
  /\ attempt' = 0
  /\ pc' = "request"
  /\ UNCHANGED <<alive, input_exists, articles, i, analysis, analyzed, total_tokens,
                 clock, disk, log, xpc, xin, xout, synthVars, repairVars, fetchVars>>

\* analyze_article: the request succeeds; the loop breaks and the rest of
\* the try block (or the except block) makes the Analysis
RequestOk ==
  /\ pc = "request"
  /\ alive
  /\ \E content \in SampleTexts, usage \in UsageKinds :
       /\ analysis' = Returned(BuildAnalysis(content, usage, clock), clock)
       /\ log' = Append(log, Event("request", i, attempt, "ok", content, usage))
  /\ pc' = "track"
  /\ UNCHANGED <<alive, input_exists, articles, i, attempt, analyzed, total_tokens,
                 clock, disk, xpc, xin, xout, synthVars, repairVars, fetchVars>>

\* analyze_article: RateLimitError before the final attempt
RequestRateLimited ==
  /\ pc = "request"
  /\ alive
  /\ attempt < max_retries - 1
  /\ log' = Append(log, Event("request", i, attempt, "RateLimitError", <<>>, "absent"))
  /\ pc' = "backoff"
  /\ UNCHANGED <<alive, input_exists, articles, i, attempt, analysis, analyzed,
                 total_tokens, clock, disk, xpc, xin, xout, synthVars, repairVars, fetchVars>>

\* faulty variant of BackoffDelay: the same delay before every retry
BackoffDelayFixed(n) == base_delay

\* delay = base_delay * (2 ** attempt): exponential backoff
BackoffDelay(n) == base_delay * (2 ^ n)

\* analyze_article: time.sleep(delay), then the next attempt
Backoff ==
  /\ pc = "backoff"
  /\ alive
  /\ LET delay == BackoffDelay(attempt) IN
       /\ clock' = clock + delay
       /\ log' = Append(log, Event("backoff", i, delay, "", <<>>, "absent"))
  /\ attempt' = attempt + 1
  /\ pc' = "request"
  /\ UNCHANGED <<alive, input_exists, articles, i, analysis, analyzed, total_tokens,
                 disk, xpc, xin, xout, synthVars, repairVars, fetchVars>>

\* analyze_article: RateLimitError on the final attempt is re-raised and
\* caught by the except block
RequestRateLimitedLast ==
  /\ pc = "request"
  /\ alive
  /\ ~(attempt < max_retries - 1)
  /\ analysis' = ErrorAnalysis(Exc("RateLimitError", Message("RateLimitError")), clock)
  /\ log' = Append(log, Event("request", i, attempt, "RateLimitError", <<>>, "absent"))
  /\ pc' = "track"
  /\ UNCHANGED <<alive, input_exists, articles, i, attempt, analyzed, total_tokens,
                 clock, disk, xpc, xin, xout, synthVars, repairVars, fetchVars>>

\* faulty variant of RequestFails: every exception is retried with backoff
\* like a rate limit
RequestFailsRetried ==
  /\ pc = "request"
  /\ alive
  /\ \E type \in OtherFailures :
       /\ log' = Append(log, Event("request", i, attempt, type, <<>>, "absent"))
       /\ IF attempt < max_retries - 1
          THEN pc' = "backoff" /\ analysis' = analysis
          ELSE pc' = "track"
               /\ analysis' = ErrorAnalysis(Exc(type, Message(type)), clock)
  /\ UNCHANGED <<alive, input_exists, articles, i, attempt, analyzed,
                 total_tokens, clock, disk, xpc, xin, xout, synthVars, repairVars, fetchVars>>

\* analyze_article: any other exception of the transport goes to the
\* except block
RequestFails ==
  /\ pc = "request"
  /\ alive
  /\ \E type \in OtherFailures :
       /\ analysis' = ErrorAnalysis(Exc(type, Message(type)), clock)
       /\ log' = Append(log, Event("request", i, attempt, type, <<>>, "absent"))
  /\ pc' = "track"
  /\ UNCHANGED <<alive, input_exists, articles, i, attempt, analyzed, total_tokens,
                 clock, disk, xpc, xin, xout, synthVars, repairVars, fetchVars>>

\* faulty variant of TrackTokens: the counters are assigned, not added to
TrackTokensOverwrite(tokens, a) ==
  IF "token_usage" \in DOMAIN a
  THEN [key \in DOMAIN tokens |->
          IF key \in DOMAIN a["token_usage"].d
          THEN a["token_usage"].d[key].n ELSE 0]
  ELSE tokens

\* total_tokens[key] += analysis['token_usage'].get(key, 0) for every key
TrackTokens(tokens, a) ==
  IF "token_usage" \in DOMAIN a
  THEN [key \in DOMAIN tokens |->
          tokens[key] + (IF key \in DOMAIN a["token_usage"].d
                         THEN a["token_usage"].d[key].n ELSE 0)]
  ELSE tokens

\* faulty variant of AppendRecord: the record is inserted at the front
AppendRecordFront(records, article, a) ==
  <<[article |-> article, analysis |-> a]>> \o records

\* analyzed.append({'article': article, 'analysis': analysis})
AppendRecord(records, article, a) ==
  Append(records, [article |-> article, analysis |-> a])

\* faulty variant of MorePacing: the delay follows the last article too
MorePacingAlways(k, n) == k <= n

\* i < len(articles) - 1 for the 0-based index: another article follows
MorePacing(k, n) == k < n

\* faulty variant of Record: the artifact is saved after every article
RecordSavesEach ==
  /\ pc = "track"
  /\ alive
  /\ total_tokens' = TrackTokens(total_tokens, analysis)
  /\ analyzed' = AppendRecord(analyzed, articles[i], analysis)
  /\ log' = Append(log, Event("record", i, 0, "", <<>>, "absent"))
  /\ disk' = Written([data |-> [analyses |-> analyzed', count |-> Len(analyzed')]])
  /\ IF MorePacing(i, Len(articles))
     THEN pc' = "pace" /\ i' = i
     ELSE pc' = "loop" /\ i' = i + 1
  /\ UNCHANGED <<alive, input_exists, articles, attempt, analysis, clock,
                 xpc, xin, xout, synthVars, repairVars, fetchVars>>

\* analyze_articles: track token usage and append the record
Record ==
  /\ pc = "track"
  /\ alive
  /\ total_tokens' = TrackTokens(total_tokens, analysis)
  /\ analyzed' = AppendRecord(analyzed, articles[i], analysis)
  /\ log' = Append(log, Event("record", i, 0, "", <<>>, "absent"))
  /\ IF MorePacing(i, Len(articles))
     THEN pc' = "pace" /\ i' = i
     ELSE pc' = "loop" /\ i' = i + 1
  /\ UNCHANGED <<alive, input_exists, articles, attempt, analysis, clock, disk,
                 xpc, xin, xout, synthVars, repairVars, fetchVars>>

\* analyze_articles: time.sleep(1) between two articles
Pace ==
  /\ pc = "pace"
  /\ alive
  /\ clock' = clock + pacing_delay
  /\ log' = Append(log, Event("pace", i, pacing_delay, "", <<>>, "absent"))
  /\ i' = i + 1
  /\ pc' = "loop"
  /\ UNCHANGED <<alive, input_exists, articles, attempt, analysis, analyzed,
                 total_tokens, disk, xpc, xin, xout, synthVars, repairVars, fetchVars>>

\* analyze_articles returns; run finishes tracking and computes the costs
EndLoop ==
  /\ pc = "loop"
  /\ alive
  /\ i > Len(articles)
  /\ pc' = "save"
  /\ UNCHANGED <<alive, input_exists, articles, i, attempt, analysis, analyzed,
                 total_tokens, clock, disk, log, xpc, xin, xout, synthVars, repairVars, fetchVars>>

\* the output run creates
Output ==
  [agent |-> "gpt-analyzer",
   model |-> display_name,
   model_id |-> model_name,
   timestamp |-> clock,
   status |-> "completed",
   data |-> [analyses |-> analyzed, count |-> Len(analyzed)],
   metadata |-> [model |-> display_name, articles_analyzed |-> Len(analyzed)],
   costs |-> [token_usage |-> total_tokens]]

\* save_output_data: open(output_file, 'w') creates or truncates the file
SaveOpen ==
  /\ pc = "save"
  /\ alive
  /\ disk' = Truncated
  /\ pc' = "dump"
  /\ UNCHANGED <<alive, input_exists, articles, i, attempt, analysis, analyzed,
                 total_tokens, clock, log, xpc, xin, xout, synthVars, repairVars, fetchVars>>

\* save_output_data: json.dump and close; then the GitHub Actions summary
\* is written and run returns
SaveDump ==
  /\ pc = "dump"
  /\ alive
  /\ disk' = Written(Output)
  /\ log' = Append(log, Event("write", 0, 0, "", <<>>, "absent"))
  /\ pc' = "done"
  /\ UNCHANGED <<alive, input_exists, articles, i, attempt, analysis, analyzed,
                 total_tokens, clock, xpc, xin, xout, synthVars, repairVars, fetchVars>>

\* the process is terminated from outside, at any point of the run
Terminate ==
  /\ alive
  /\ pc \notin {"done", "raised", "off"}
  /\ alive' = FALSE
  /\ UNCHANGED <<pc, input_exists, articles, i, attempt, analysis, analyzed,
                 total_tokens, clock, disk, log, xpc, xin, xout, synthVars, repairVars, fetchVars>>

Next ==
  \/ LoadInput
  \/ LoadInputMissing
  \/ BeginArticle
  \/ RequestOk
  \/ RequestRateLimited
  \/ Backoff
  \/ RequestRateLimitedLast
  \/ RequestFails
  \/ Record
  \/ Pace
  \/ EndLoop
  \/ SaveOpen
  \/ SaveDump
  \/ Terminate

Spec == Init /\ [][Next]_vars

----------------------------------------------------------------------------
(* analyze_article on one successful response, for every generated text *)

\* all texts of at most n lexemes over the set chars
RECURSIVE TextsUpTo(_, _)
TextsUpTo(chars, n) ==
  IF n = 0 THEN {<<>>}
  ELSE LET shorter == TextsUpTo(chars, n - 1) IN
       shorter \cup {Append(s, c) : s \in shorter, c \in chars}

CoreChars == {"{", "}", "[", "]", ",", "sum", "kv", "word"}

\* what may precede and follow the core: nothing, prose, a fence line
\* (bare, tagged, indented), an enclosing object
Prefixes ==
  { <<>>,
    <<"word", " ">>,
    <<"FENCE", "NL">>,
    <<" ", "FENCE", "json", " ", "NL">>,
    <<"{", "k:">> }

Suffixes ==
  { <<>>,
    <<" ", "word">>,
    <<"NL", "FENCE">>,
    <<"NL", "FENCE", " ", "NL">>,
    <<"}">> }

\* texts with a scalar, a string or whitespace only
OtherTexts ==
  { <<"1">>, <<"str">>, <<" ", "1", "NL">>, <<" ">>, <<"NL">>,
    <<"[", "str", ",", "1", "]">>,
    <<"{", "k:", "1", ",", "sum", "}">>,
    <<"{", "k:", "[", "{", "kv", "}", "]", "}">> }

\* valid JSON objects with a summary member: flat, nested, and with string
\* values that contain braces
Objects ==
  { <<"{", "sum", "}">>,
    <<"{", "sum", ",", "kv", "}">>,
    <<"{", "k:", "{", "kv", "}", ",", "sum", "}">>,
    <<"{", " ", "sum", ",", "NL", "k:", "[", "1", ",", "str", "]", "}">>,
    <<"{", "sum", ",", "k:", "q", "word", "q", "}">>,
    <<"{", "sum", ",", "k:", "q", "{", "}", "q", "}">>,
    <<"{", "sum", ",", "k:", "q", "{", "q", "}">>,
    <<"{", "k:", "q", "}", "q", ",", "sum", "}">>,
    <<"{", "k:", "q", "}", "{", "q", ",", "sum", "}">> }

\* prose after an object: words, spaces and braces of its own
ProseChars == {"word", " ", "{", "}"}
Proses == TextsUpTo(ProseChars, MaxProseLen)
\* the prose before an object may also open with a fence marker
LeadingChars == {"word", " ", "{", "}", "FENCE"}
LeadingProses == TextsUpTo(LeadingChars, MaxProseLen)

\* an object preceded and followed by prose
WrappedTexts == {p \o j \o s : p \in LeadingProses, j \in Objects, s \in Proses}

\* an opening fence line: bare, with a language tag, indented, after and
\* before blank lines
FenceOpenings ==
  { <<"FENCE", "NL">>,
    <<"FENCE", "json", "NL">>,
    <<" ", "FENCE", "json", " ", "NL">>,
    <<"NL", "FENCE", "NL", "NL">> }

\* a closing fence on a line of its own, with blanks around it
FenceClosings ==
  { <<"NL", "FENCE">>,
    <<"NL", "FENCE", " ", "NL">>,
    <<"NL", " ", "FENCE">>,
    <<" ", "NL", "NL", "FENCE", "NL">> }

\* an object in a single fenced block
FencedTexts ==
  {o \o j \o c : o \in FenceOpenings, j \in Objects, c \in FenceClosings}

\* every short text between every prefix and suffix
CoreTexts ==
  {p \o c \o s : p \in Prefixes, c \in TextsUpTo(CoreChars, MaxCoreLen), s \in Suffixes}

InitExtract ==
  /\ pc = "off"
  /\ alive = TRUE
  /\ input_exists = FALSE
  /\ articles = <<>>
  /\ i = 0
  /\ attempt = 0
  /\ analysis = EmptyDict
  /\ analyzed = <<>>
  /\ total_tokens = ZeroTokens
  /\ clock = 0
  /\ disk = NoFile
  /\ log = <<>>
  /\ xpc = "response"
  /\ \/ xin \in CoreTexts
     \/ xin \in OtherTexts
     \/ xin \in WrappedTexts
     \/ xin \in FencedTexts
     \/ xin \in Objects
  /\ xout = Idle
  /\ SynthOff

\* the transport returned text xin with usage counters: analyze_article
\* returns an Analysis
Extract ==
  /\ xpc = "response"
  /\ xout' = [content |-> StripFences(xin),
              quality |-> ParseContent(StripFences(xin)).quality,
              val |-> ParseContent(StripFences(xin)).val,
              analysis |-> Returned(BuildAnalysis(xin, "u1", clock), clock)]
  /\ xpc' = "returned"
  /\ UNCHANGED <<pc, alive, input_exists, articles, i, attempt, analysis, analyzed,
                 total_tokens, clock, disk, log, xin, synthVars, repairVars, fetchVars>>

NextExtract == Extract

SpecExtract == InitExtract /\ [][NextExtract]_vars

----------------------------------------------------------------------------
(* perspective_synthesizer.py.  The sentiment and confidence of an Analysis *)
(* are strings or absent; an agreement percentage, rounded to one decimal, *)
(* is held in tenths of a percent (66.7 is 667).  A Python dict that the   *)
(* code iterates is the sequence of its items in insertion order.          *)

\* d.get(k, default)
Get(d, k, default) == IF k \in DOMAIN d THEN d[k] ELSE default

\* the static list of (artifact path, model display name) pairs
models ==
  << [file |-> "gpt_mini_analysis.json", name |-> "GPT-4o Mini"],
     [file |-> "llama_small_analysis.json", name |-> "Llama 3.1 8B"],
     [file |-> "phi_analysis.json", name |-> "Phi-4 Mini"],
     [file |-> "mistral_analysis.json", name |-> "Mistral Small"],
     [file |-> "gpt_analysis.json", name |-> "GPT-4o"],
     [file |-> "llama_analysis.json", name |-> "Llama 3.1 405B"],
     [file |-> "deepseek_analysis.json", name |-> "DeepSeek-V3"],
     [file |-> "grok_analysis.json", name |-> "Grok 3"] >>

get_model_emoji(name) ==
  CASE name \in {"GPT-4o Mini", "GPT-4o"} -> "green"
    [] name \in {"Llama 3.1 8B", "Llama 3.1 405B"} -> "blue"
    [] name = "Phi-4 Mini" -> "yellow"
    [] name \in {"Mistral Small", "DeepSeek-V3"} -> "purple"
    [] name = "Grok 3" -> "orange"
    [] OTHER -> "white"

\* the join key of a record's article
ArticleId(article) == Get(article, "id", Get(article, "title", ""))

\* one model's entry for an article
Perspective(name, a) ==
  [model |-> name,
   model_id |-> Get(a, "model_id", Str(<<>>)),
   emoji |-> get_model_emoji(name),
   summary |-> Get(a, "summary", Str(<<>>)),
   key_points |-> Get(a, "key_points", List(<<>>)),
   sentiment |-> Get(a, "sentiment", Lit("unknown")),
   confidence |-> Get(a, "confidence", Lit("unknown")),
   bias_check |-> Get(a, "bias_check", Str(<<>>)),
   missing_context |-> Get(a, "missing_context", Str(<<>>)),
   implications |-> Get(a, "implications", Str(<<>>)),
   analyzed_at |-> Get(a, "analyzed_at", Str(<<>>))]

\* the position of key in the article index, 0 when it is not there
RECURSIVE KeyPosition(_, _, _)
KeyPosition(index, key, n) ==
  IF n > Len(index) THEN 0
  ELSE IF index[n].key = key THEN n
  ELSE KeyPosition(index, key, n + 1)

\* every record opens an entry of its own
AddPerspectiveNoJoin(index, article, p) ==
  Append(index, [key |-> ArticleId(article), article |-> article, perspectives |-> <<p>>])

\* article_perspectives after one record: a new key gets an entry with the
\* record's article, then the perspective is appended to the key's entry
AddPerspective(index, article, p) ==
  LET key == ArticleId(article)
      at == KeyPosition(index, key, 1)
  IN IF at = 0
     THEN Append(index, [key |-> key, article |-> article, perspectives |-> <<p>>])
     ELSE [index EXCEPT ![at].perspectives = Append(@, p)]

\* the loop over one artifact's records
RECURSIVE IndexRecords(_, _, _)
IndexRecords(index, name, items) ==
  IF items = <<>> THEN index
  ELSE IndexRecords(AddPerspective(index, Head(items).article,
                                   Perspective(name, Head(items).analysis)),
                    name, Tail(items))

\* the loop over the loaded artifacts
RECURSIVE BuildIndex(_, _)
BuildIndex(index, loaded) ==
  IF loaded = <<>> THEN index
  ELSE BuildIndex(IndexRecords(index, Head(loaded).model, Head(loaded).analyses),
                  Tail(loaded))

\* sentiment_counts after counting s: a new value is inserted at the end
RECURSIVE CountInto(_, _, _)
CountInto(dist, s, n) ==
  IF n > Len(dist) THEN Append(dist, [value |-> s, count |-> 1])
  ELSE IF dist[n].value = s THEN [dist EXCEPT ![n].count = @ + 1]
  ELSE CountInto(dist, s, n + 1)

\* the distribution of a list of sentiments, its items in insertion order
RECURSIVE Counts(_, _)
Counts(dist, sentiments) ==
  IF sentiments = <<>> THEN dist
  ELSE Counts(CountInto(dist, Head(sentiments), 1), Tail(sentiments))

\* dist.get(v, 0)
RECURSIVE CountOf(_, _)
CountOf(dist, v) ==
  IF dist = <<>> THEN 0
  ELSE IF Head(dist).value = v THEN Head(dist).count
  ELSE CountOf(Tail(dist), v)

\* the last item of greatest count
RECURSIVE MaxItemLast(_, _)
MaxItemLast(dist, best) ==
  IF dist = <<>> THEN best
  ELSE MaxItemLast(Tail(dist), IF Head(dist).count >= best.count THEN Head(dist) ELSE best)

\* max(dist.items(), key=lambda x: x[1]): the first item of greatest count
RECURSIVE MaxItem(_, _)
MaxItem(dist, best) ==
  IF dist = <<>> THEN best
  ELSE MaxItem(Tail(dist), IF Head(dist).count > best.count THEN Head(dist) ELSE best)

\* the dominant sentiment of a distribution, default when it is empty
DominantLast(dist, default) ==
  IF dist # <<>> THEN MaxItemLast(Tail(dist), Head(dist)).value ELSE default
Dominant(dist, default) ==
  IF dist # <<>> THEN MaxItem(Tail(dist), Head(dist)).value ELSE default

\* count / total * 100 cut, not rounded, to one decimal
RoundTenthsDown(count, total) == (count * 1000) \div total

\* round(count / total * 100, 1) in tenths: to the nearest tenth, a value
\* half way between two tenths to the even one
RoundTenths(count, total) ==
  LET q == (count * 1000) \div total
      r == (count * 1000) % total
  IN IF 2 * r < total THEN q
     ELSE IF 2 * r > total THEN q + 1
     ELSE IF q % 2 = 0 THEN q ELSE q + 1

\* the agreement percentage of a distribution over n sentiments
Agreement(dist, dominant, n) ==
  IF n > 0 THEN RoundTenths(CountOf(dist, dominant), n) ELSE 0

\* the sentiments of all perspectives, unknown ones too
SentimentsOfAll(entries) == [k \in 1..Len(entries) |-> entries[k].sentiment]

\* [p['sentiment'] for p in perspectives if p['sentiment'] != 'unknown']
SentimentsOf(entries) ==
  LET all == [k \in 1..Len(entries) |-> entries[k].sentiment]
  IN SelectSeq(all, LAMBDA s : s # Lit("unknown"))

\* the consensus of one article
ArticleConsensus(entries) ==
  LET sentiments == SentimentsOf(entries)
      sentiment_counts == Counts(<<>>, sentiments)
      dominant_sentiment == Dominant(sentiment_counts, Lit("mixed"))
  IN [dominant_sentiment |-> dominant_sentiment,
      agreement_percentage |-> Agreement(sentiment_counts, dominant_sentiment, Len(sentiments)),
      sentiment_distribution |-> sentiment_counts,
      models_analyzed |-> Len(entries)]

\* x put into the sorted list before every element with no more
\* perspectives than it has
RECURSIVE InsertByCoverageUnstable(_, _)
InsertByCoverageUnstable(sorted, x) ==
  IF sorted = <<>> THEN <<x>>
  ELSE IF Len(Head(sorted).perspectives) > Len(x.perspectives)
       THEN <<Head(sorted)>> \o InsertByCoverageUnstable(Tail(sorted), x)
       ELSE <<x>> \o sorted

\* list.sort(key=len(perspectives), reverse=True): x put into the sorted
\* list after every element with at least as many perspectives
RECURSIVE InsertByCoverage(_, _)
InsertByCoverage(sorted, x) ==
  IF sorted = <<>> THEN <<x>>
  ELSE IF Len(Head(sorted).perspectives) >= Len(x.perspectives)
       THEN <<Head(sorted)>> \o InsertByCoverage(Tail(sorted), x)
       ELSE <<x>> \o sorted

RECURSIVE SortByCoverage(_, _)
SortByCoverage(sorted, rest) ==
  IF rest = <<>> THEN sorted
  ELSE SortByCoverage(InsertByCoverage(sorted, Head(rest)), Tail(rest))

synthesize_perspectives(loaded) ==
  LET article_perspectives == BuildIndex(<<>>, loaded)
      result == [k \in 1..Len(article_perspectives) |->
                   [article |-> article_perspectives[k].article,
                    perspectives |-> article_perspectives[k].perspectives,
                    consensus |-> ArticleConsensus(article_perspectives[k].perspectives)]]
  IN SortByCoverage(<<>>, result)

\* the values of field f of all the records that have it, artifact by artifact
RECURSIVE FieldOfRecords(_, _)
FieldOfRecords(items, f) ==
  IF items = <<>> THEN <<>>
  ELSE (IF f \in DOMAIN Head(items).analysis THEN <<Head(items).analysis[f]>> ELSE <<>>)
         \o FieldOfRecords(Tail(items), f)

RECURSIVE FieldOfAll(_, _)
FieldOfAll(loaded, f) ==
  IF loaded = <<>> THEN <<>>
  ELSE FieldOfRecords(Head(loaded).analyses, f) \o FieldOfAll(Tail(loaded), f)

\* list.count(v) without regard to the case of the first letter
CountInFolded(list, v) ==
  Cardinality({k \in 1..Len(list) :
                 (IF list[k] = Lit("High") THEN Lit("high") ELSE list[k]) = v})

\* list.count(v)
CountIn(list, v) == Cardinality({k \in 1..Len(list) : list[k] = v})

calculate_consensus(loaded) ==
  LET sentiments == FieldOfAll(loaded, "sentiment")
      confidence_levels == FieldOfAll(loaded, "confidence")
      sentiment_dist == Counts(<<>>, sentiments)
      dominant_sentiment == Dominant(sentiment_dist, Lit("unknown"))
  IN [dominant_sentiment |-> dominant_sentiment,
      sentiment_distribution |-> sentiment_dist,
      agreement_percentage |-> Agreement(sentiment_dist, dominant_sentiment, Len(sentiments)),
      total_analyses |-> Len(sentiments),
      confidence_distribution |->
        [high |-> CountIn(confidence_levels, Lit("high")),
         medium |-> CountIn(confidence_levels, Lit("medium")),
         low |-> CountIn(confidence_levels, Lit("low"))]]

\* Analyses as a ModelAnalyzer run stores them: parsed from the completion
\* text, the error Analysis, an object without sentiment taken as it is,
\* the fallback object
ParsedAnalysis(sentiment, confidence) ==
  [summary |-> Lit("s"), sentiment |-> Lit(sentiment), confidence |-> Lit(confidence),
   model |-> display_name, model_id |-> model_name, analyzed_at |-> Num(0)]
FailedAnalysis == ErrorAnalysis(Exc("APIConnectionError", Message("APIConnectionError")), 0)
BareAnalysis == Returned(BuildAnalysis(<<"{", "kv", "}">>, "u1", 0), 0)
FallbackAnalysis == Returned(BuildAnalysis(<<"word">>, "u1", 0), 0)

\* Items: two with ids, one without id whose title is the first one's id,
\* one with the first one's title under another id
ArticleA == [id |-> "news_0_1", title |-> "first"]
ArticleB == [id |-> "news_1_1", title |-> "second"]
ArticleT == [title |-> "news_0_1"]
ArticleC == [id |-> "news_0_2", title |-> "first"]

Rec(article, a) == [article |-> article, analysis |-> a]

\* data.analyses of the per-model artifacts that may be on disk
SampleArtifacts ==
  << <<>>,
     <<Rec(ArticleA, ParsedAnalysis("positive", "high"))>>,
     <<Rec(ArticleA, ParsedAnalysis("negative", "low"))>>,
     <<Rec(ArticleA, FailedAnalysis)>>,
     <<Rec(ArticleA, BareAnalysis), Rec(ArticleB, ParsedAnalysis("positive", "medium"))>>,
     <<Rec(ArticleB, ParsedAnalysis("negative", "High")),
       Rec(ArticleA, ParsedAnalysis("negative", "high"))>>,
     <<Rec(ArticleT, ParsedAnalysis("negative", "medium"))>>,
     <<Rec(ArticleC, FallbackAnalysis), Rec(ArticleB, FailedAnalysis)>> >>

\* the artifacts the run of main may find: one analyzed record, one failed
FoundArtifacts == {2, 4}

\* what load_analysis returns for artifact number k holding the records
load_analysis(k, records) == [model |-> models[k].name, analyses |-> records]

\* a per-model artifact as a ModelAnalyzer run leaves it
Stored(records) == Written([data |-> [analyses |-> records, count |-> Len(records)]])

\* the artifact of choice c: not on disk, on disk and unreadable, or one of
\* the found ones
OnDisk(c) ==
  IF c \in FoundArtifacts THEN Stored(SampleArtifacts[c])
  ELSE IF c = 0 THEN NoFile ELSE Truncated

\* the disks the run of main may meet
Disks ==
  [1..Len(models) -> FoundArtifacts \cup {0, -1}]

\* no ModelAnalyzer is running
AnalyzerOff ==
  /\ pc = "off"
  /\ alive = TRUE
  /\ input_exists = FALSE
  /\ articles = <<>>
  /\ i = 0
  /\ attempt = 0
  /\ analysis = EmptyDict
  /\ analyzed = <<>>
  /\ total_tokens = ZeroTokens
  /\ clock = 0
  /\ disk = NoFile
  /\ log = <<>>
  /\ xpc = "idle"
  /\ xin = <<>>
  /\ xout = Idle

\* main starts
InitSynthesizer ==
  /\ AnalyzerOff
  /\ spc = "load"
  /\ model_index = 1
  /\ \E c \in Disks : artifacts = [k \in 1..Len(models) |-> OnDisk(c[k])]
  /\ all_analyses = <<>>
  /\ skipped = <<>>
  /\ synthesized = <<>>
  /\ consensus = <<>>
  /\ perspectives = NoFile
  /\ repairs = <<>>
  /\ FetchOff

\* where main goes after the artifact at model_index
AfterLoad == IF model_index = Len(models) THEN "synthesize" ELSE "load"

\* main: the artifact at model_index is on disk and is appended
LoadFound ==
  /\ spc = "load"
  /\ artifacts[model_index].kind = "written"
  /\ all_analyses' = Append(all_analyses,
                            load_analysis(model_index,
                                          artifacts[model_index].output.data.analyses))
  /\ model_index' = model_index + 1
  /\ spc' = AfterLoad
  /\ UNCHANGED <<analyzerVars, repairVars, fetchVars, artifacts, skipped, synthesized, consensus, perspectives>>

\* main: FileNotFoundError leaves main
LoadMissingRaises ==
  /\ spc = "load"
  /\ artifacts[model_index].kind = "absent"
  /\ spc' = "raised"
  /\ UNCHANGED <<analyzerVars, repairVars, fetchVars, model_index, artifacts, all_analyses, skipped, synthesized,
                 consensus, perspectives>>

\* main: the artifact at model_index is not on disk; load_analysis catches
\* FileNotFoundError and returns None, nothing is appended
LoadMissing ==
  /\ spc = "load"
  /\ artifacts[model_index].kind = "absent"
  /\ skipped' = Append(skipped, [index |-> model_index, why |-> "not found"])
  /\ model_index' = model_index + 1
  /\ spc' = AfterLoad
  /\ UNCHANGED <<analyzerVars, repairVars, fetchVars, artifacts, all_analyses, synthesized, consensus, perspectives>>

\* main: the artifact at model_index is on disk and cannot be loaded (cut
\* short, not JSON, not an object); load_analysis catches the exception and
\* returns None, nothing is appended
LoadUnreadable ==
  /\ spc = "load"
  /\ artifacts[model_index].kind = "truncated"
  /\ skipped' = Append(skipped, [index |-> model_index, why |-> "error loading"])
  /\ model_index' = model_index + 1
  /\ spc' = AfterLoad
  /\ UNCHANGED <<analyzerVars, repairVars, fetchVars, artifacts, all_analyses, synthesized, consensus, perspectives>>

\* main: every artifact of the list was tried: synthesize_perspectives
Synthesize ==
  /\ spc = "synthesize"
  /\ synthesized' = synthesize_perspectives(all_analyses)
  /\ spc' = "consensus"
  /\ UNCHANGED <<analyzerVars, repairVars, fetchVars, model_index, artifacts, all_analyses, skipped, consensus,
                 perspectives>>

CalculateConsensus ==
  /\ spc = "consensus"
  /\ consensus' = calculate_consensus(all_analyses)
  /\ spc' = "save"
  /\ UNCHANGED <<analyzerVars, repairVars, fetchVars, model_index, artifacts, all_analyses, skipped, synthesized,
                 perspectives>>

\* the names of the static list
ModelNames == [k \in 1..Len(models) |-> models[k].name]

\* main: the synthesized artifact is written
SavePerspectives ==
  /\ spc = "save"
  /\ perspectives' =
       Written([agent |-> "perspective-synthesizer",
                status |-> "completed",
                data |-> [articles |-> synthesized,
                          count |-> Len(synthesized),
                          consensus |-> consensus,
                          models |-> ModelNames],
                metadata |-> [models_included |-> ModelNames,
                              total_perspectives |-> consensus.total_analyses]])
  /\ spc' = "done"
  /\ UNCHANGED <<analyzerVars, repairVars, fetchVars, model_index, artifacts, all_analyses, skipped, synthesized,
                 consensus>>

NextSynthesizer ==
  \/ LoadFound
  \/ LoadMissing
  \/ LoadUnreadable
  \/ Synthesize
  \/ CalculateConsensus
  \/ SavePerspectives

SpecSynthesizer == InitSynthesizer /\ [][NextSynthesizer]_vars

\* main is run again and forgets what the run before held: its locals start
\* empty, the files on disk stay as they are
StartAgainKeeps ==
  /\ spc = "done"
  /\ spc' = "load"
  /\ model_index' = 1
  /\ UNCHANGED <<analyzerVars, repairVars, fetchVars, artifacts, all_analyses, skipped, synthesized, consensus,
                 perspectives>>

StartAgain ==
  /\ spc = "done"
  /\ spc' = "load"
  /\ model_index' = 1
  /\ all_analyses' = <<>>
  /\ skipped' = <<>>
  /\ synthesized' = <<>>
  /\ consensus' = <<>>
  /\ UNCHANGED <<analyzerVars, repairVars, fetchVars, artifacts, perspectives>>

\* the synthesized artifact an earlier run left, made when only the first
\* model's artifact was on disk
EarlierOutput ==
  LET loaded == <<load_analysis(1, SampleArtifacts[5])>>
  IN [agent |-> "perspective-synthesizer",
      status |-> "completed",
      data |-> [articles |-> synthesize_perspectives(loaded),
                count |-> 2,
                consensus |-> calculate_consensus(loaded),
                models |-> ModelNames],
      metadata |-> [models_included |-> ModelNames, total_perspectives |-> 1]]

\* main starts, with or without a synthesized artifact of an earlier run
InitAgain ==
  /\ AnalyzerOff
  /\ spc = "load"
  /\ model_index = 1
  /\ \E c \in Disks : artifacts = [k \in 1..Len(models) |-> OnDisk(c[k])]
  /\ all_analyses = <<>>
  /\ skipped = <<>>
  /\ synthesized = <<>>
  /\ consensus = <<>>
  /\ \/ perspectives = NoFile
     \/ perspectives = Written(EarlierOutput)
  /\ repairs = <<>>
  /\ FetchOff

NextAgain ==
  \/ NextSynthesizer
  \/ StartAgain

SpecAgain == InitAgain /\ [][NextAgain]_vars

\* synthesize_perspectives and calculate_consensus on any list of at most
\* MaxLoaded loaded artifacts, the first ones of the static list
InitConsensus ==
  /\ AnalyzerOff
  /\ spc = "synthesize"
  /\ model_index = Len(models) + 1
  /\ \E n \in 0..MaxLoaded : \E c \in [1..n -> 1..Len(SampleArtifacts)] :
       /\ artifacts = [k \in 1..Len(models) |->
                         IF k <= n THEN Stored(SampleArtifacts[c[k]]) ELSE NoFile]
       /\ all_analyses = [k \in 1..n |-> load_analysis(k, SampleArtifacts[c[k]])]
  /\ skipped = <<>>
  /\ synthesized = <<>>
  /\ consensus = <<>>
  /\ perspectives = NoFile
  /\ repairs = <<>>
  /\ FetchOff

NextConsensus ==
  \/ Synthesize
  \/ CalculateConsensus

SpecConsensus == InitConsensus /\ [][NextConsensus]_vars

----------------------------------------------------------------------------
(* ArtifactRepair: fix_analysis_json.py (pass a) and fix_json_fences.py     *)
(* (pass b), each run on one per-model artifact, in place                  *)

\* s.startswith(c) for a marker c that is one lexeme
StartsWith(s, c) == s # <<>> /\ s[1] = c

\* the number of characters of a lexeme: "JR" is the bold preamble
\* **JSON Response** and "long" a run of 100 letters
CharLen(c) ==
  CASE c = "long" -> 100
    [] c = "esum" -> 18
    [] c = "JR" -> 17
    [] c = "sum" -> 14
    [] c = "kp:" -> 13
    [] c = "s:" -> 10
    [] c = "kv" -> 8
    [] c \in {"k:", "json", "word"} -> 4
    [] c \in {"FENCE", "str"} -> 3
    [] c = "eNL" -> 2
    [] OTHER -> 1

\* the number of characters of the first n lexemes of s
RECURSIVE CharsUpTo(_, _)
CharsUpTo(s, n) == IF n = 0 THEN 0 ELSE CharsUpTo(s, n - 1) + CharLen(s[n])

\* characters of the summary that pass (b) searches for the json fence
FenceWindow == 100

\* '```json' in summary[:100]
HasJsonFence(summary) ==
  \E n \in 1..(Len(summary) - 1) :
    /\ summary[n] = "FENCE"
    /\ summary[n + 1] = "json"
    /\ CharsUpTo(summary, n + 1) <= FenceWindow

\* the first character of a str, as a text: a lexeme of several characters
\* begins with a character that is no JSON text by itself
FirstChar(s) == IF CharLen(s[1]) = 1 THEN <<s[1]>> ELSE <<"char">>

\* what the scan of one record gives: the record after it, whether it was
\* counted as fixed, the exception that ended the pass ("" when none)
Scanned(item, fixed, raised) == [item |-> item, fixed |-> fixed, raised |-> raised]

\* whether the value stored under `analysis` is a dict (the model keeps a
\* dict Analysis as the function itself and any other value tagged)
IsDictAnalysis(a) == "t" \notin DOMAIN a

\* len(v) > 0 and v[0] for the value under key_points: the element, first
\* character or the exception
FirstOf(v) ==
  CASE v.t = "list" -> [some |-> v.l # <<>>, raised |-> "",
                        val |-> IF v.l # <<>> THEN v.l[1] ELSE NoneValue]
    [] v.t = "str" -> [some |-> v.s # <<>>, raised |-> "",
                       val |-> IF v.s # <<>> THEN Str(FirstChar(v.s)) ELSE NoneValue]
    [] v.t = "dict" -> [some |-> v.d # EmptyDict,
                        raised |-> IF v.d # EmptyDict THEN "KeyError" ELSE "",
                        val |-> NoneValue]
    [] OTHER -> [some |-> FALSE, raised |-> "TypeError", val |-> NoneValue]

\* fix_analysis_json.extract_json_from_string: the line from which the text
\* is kept when it starts with the preamble (start_idx, 1-based)
RECURSIVE PreambleEnd(_, _)
PreambleEnd(lines, n) ==
  IF n > Len(lines) THEN 1
  ELSE IF StartsWith(Strip(lines[n]), "FENCE") \/ StartsWith(Strip(lines[n]), "{") THEN n
  ELSE PreambleEnd(lines, n + 1)

\* remove **JSON Response** prefix if present
SkipPreamble(content) ==
  IF StartsWith(content, "JR")
  THEN LET lines == Split(content)
       IN Join(SubSeq(lines, PreambleEnd(lines, 1), Len(lines)))
  ELSE content

\* remove code fences
RemoveFences(content) ==
  IF StartsWithFence(content)
  THEN LET lines0 == Split(content)
           lines1 == IF StartsWithFence(lines0[1]) THEN Tail(lines0) ELSE lines0
           lines2 == IF lines1 # <<>> /\ Strip(lines1[Len(lines1)]) = <<"FENCE">>
                     THEN SubSeq(lines1, 1, Len(lines1) - 1)
                     ELSE lines1
       IN Join(lines2)
  ELSE content

\* the parsed object, or ok = FALSE for None: the first { and its matching }
\* are found by the same scan as in analyze_article
extract_json_from_string(content) ==
  BraceParse(RemoveFences(SkipPreamble(Strip(content))))

\* the Analysis pass (a) stores for a parsed object: the seven fields from
\* the object, the metadata from the stored Analysis
Normalized(parsed, before) ==
  LET fields == [summary |-> Get(parsed, "summary", Str(<<>>)),
                 key_points |-> Get(parsed, "key_points", List(<<>>)),
                 sentiment |-> Get(parsed, "sentiment", Lit("neutral")),
                 confidence |-> Get(parsed, "confidence", Lit("medium")),
                 bias_check |-> Get(parsed, "bias_check", Str(<<>>)),
                 missing_context |-> Get(parsed, "missing_context", Str(<<>>)),
                 implications |-> Get(parsed, "implications", Str(<<>>)),
                 model |-> Get(before, "model", Str(<<>>)),
                 model_id |-> Get(before, "model_id", Str(<<>>)),
                 analyzed_at |-> Get(before, "analyzed_at", Str(<<>>))]
  IN IF "token_usage" \in DOMAIN before
     THEN SetItem(fields, "token_usage", before["token_usage"])
     ELSE fields

\* pass (a): what is done with the parsed value of key_points[0]: an object
\* with a summary replaces the analysis, and the title of the fixed record
\* is printed
ReplaceAnalysis(item, parsed) ==
  IF ~(parsed.ok /\ parsed.val.d # EmptyDict /\ "summary" \in DOMAIN parsed.val.d)
  THEN Scanned(item, FALSE, "")
  ELSE IF "title" \notin DOMAIN item.article
  THEN Scanned(item, FALSE, "KeyError")
  ELSE Scanned([item EXCEPT !.analysis = Normalized(parsed.val.d, item.analysis)], TRUE, "")

\* pass (a), the body of the loop for one record
FixJsonRecord(item) ==
  LET found == item.analysis IN
  IF ~IsDictAnalysis(found) THEN Scanned(item, FALSE, "AttributeError")
  ELSE LET summary == Get(found, "summary", Str(<<>>)) IN
  IF summary.t # "str" THEN Scanned(item, FALSE, "AttributeError")
  ELSE LET summary_start == Strip(summary.s) IN
  IF ~(/\ "summary" \in DOMAIN found
       /\ StartsWith(summary_start, "{") \/ StartsWith(summary_start, "JR")
       /\ "key_points" \in DOMAIN found)
  THEN Scanned(item, FALSE, "")
  ELSE LET first == FirstOf(found["key_points"]) IN
  IF first.raised # "" THEN Scanned(item, FALSE, first.raised)
  ELSE IF ~first.some THEN Scanned(item, FALSE, "")
  ELSE IF first.val.t # "str" THEN Scanned(item, FALSE, "AttributeError")
  ELSE ReplaceAnalysis(item, extract_json_from_string(first.val.s))

\* fix_json_fences.strip_code_fences: the index (0-based) after the first
\* line that starts with a fence, 0 when there is none
RECURSIVE OpeningFence(_, _)
OpeningFence(lines, n) ==
  IF n > Len(lines) THEN 0
  ELSE IF StartsWithFence(Strip(lines[n])) THEN n
  ELSE OpeningFence(lines, n + 1)

\* the index (1-based) of the first line from n on that is a fence alone, 0
\* when there is none
RECURSIVE ClosingFence(_, _)
ClosingFence(lines, n) ==
  IF n > Len(lines) THEN 0
  ELSE IF Strip(lines[n]) = <<"FENCE">> THEN n
  ELSE ClosingFence(lines, n + 1)

strip_code_fences(content) ==
  LET lines == Split(Strip(content))
      start_idx == OpeningFence(lines, 1)
      closing == ClosingFence(lines, start_idx + 1)
  IN IF closing > 0 THEN Join(SubSeq(lines, start_idx + 1, closing - 1))
     ELSE IF start_idx > 0 THEN Join(SubSeq(lines, start_idx + 1, Len(lines)))
     ELSE Join(lines)

\* the value pass (b) stores under `analysis`
AsStored(val) == IF val.t = "dict" THEN val.d ELSE val

\* json.loads, and the first { to its matching } when that fails
ParseLenient(raw_json) == IF Loads(raw_json).ok THEN Loads(raw_json) ELSE BraceParse(raw_json)

\* how pass (b) reads the text between the fences: json.loads
ParseStrict(raw_json) == Loads(raw_json)

\* pass (b): what is done with the parsed text of key_points[0]: any value
\* that parsed replaces the analysis, a JSONDecodeError is skipped
StoreParsedValue(item, parsed) ==
  IF parsed.ok
  THEN Scanned([item EXCEPT !.analysis = AsStored(parsed.val)], TRUE, "")
  ELSE Scanned(item, FALSE, "")

\* pass (b), the body of the loop for one record
FixFencesRecord(item) ==
  LET found == item.analysis IN
  IF ~IsDictAnalysis(found) THEN Scanned(item, FALSE, "AttributeError")
  ELSE LET stored == Get(found, "summary", Str(<<>>)) IN
  IF stored.t # "str" THEN Scanned(item, FALSE, "AttributeError")
  ELSE LET summary == Strip(stored.s) IN
  IF ~(StartsWithFence(summary) \/ HasJsonFence(summary)) THEN Scanned(item, FALSE, "")
  ELSE IF "key_points" \notin DOMAIN found THEN Scanned(item, FALSE, "")
  ELSE LET first == FirstOf(found["key_points"]) IN
  IF first.raised # "" THEN Scanned(item, FALSE, first.raised)
  ELSE IF ~first.some THEN Scanned(item, FALSE, "")
  ELSE IF first.val.t # "str" THEN Scanned(item, FALSE, "AttributeError")
  ELSE StoreParsedValue(item, ParseStrict(strip_code_fences(first.val.s)))

\* the loop over data.analyses with the loop body scan: the records after
\* it, fixed_count, and the exception that ended it
RECURSIVE FixRecords(_, _, _, _)

\* the loop after the body gave r for the first of items: an exception ends
\* it, otherwise it goes on with the next record
AfterRecord(pass, items, done, fixed_count, r) ==
  IF r.raised # ""
  THEN [items |-> done \o items, fixed_count |-> fixed_count, raised |-> r.raised]
  ELSE FixRecords(pass, Tail(items), Append(done, r.item),
                  fixed_count + (IF r.fixed THEN 1 ELSE 0))

FixRecords(pass, items, done, fixed_count) ==
  IF items = <<>> THEN [items |-> done, fixed_count |-> fixed_count, raised |-> ""]
  ELSE AfterRecord(pass, items, done, fixed_count,
                   IF pass = "json" THEN FixJsonRecord(Head(items))
                   ELSE FixFencesRecord(Head(items)))

\* fix_analysis_file that writes the file back after every scan that ended
WriteBackAlways(records, r) ==
  [records |-> IF r.raised = "" THEN r.items ELSE records,
   fixed_count |-> r.fixed_count,
   wrote |-> r.raised = "",
   raised |-> r.raised]

fix_analysis_file_always(pass, records) ==
  WriteBackAlways(records, FixRecords(pass, records, <<>>, 0))

\* the end of fix_analysis_file: the file is written back when the loop
\* ended without exception and fixed at least one record
WriteBack(records, r) ==
  [records |-> IF r.raised = "" /\ r.fixed_count > 0 THEN r.items ELSE records,
   fixed_count |-> r.fixed_count,
   wrote |-> r.raised = "" /\ r.fixed_count > 0,
   raised |-> r.raised]

\* fix_analysis_file of either pass on the records of a file: what the file
\* holds afterwards and what the run did
fix_analysis_file(pass, records) ==
  WriteBack(records, FixRecords(pass, records, <<>>, 0))

\* completion texts that older runs stored whole in key_points[0]
RepairTexts ==
  << <<"{", "sum", "}">>,
     <<"JR", "NL", "FENCE", "json", "NL", "{", "sum", "}", "NL", "FENCE">>,
     <<"FENCE", "json", "NL", "{", "sum", "}", "NL", "FENCE">>,
     <<"FENCE", "json", "NL", "{", "sum", "}", "NL", "FENCE", "NL", "word">>,
     <<"FENCE", "json", "NL", "word", "{", "sum", "}">>,
     <<"{", "sum">>,
     <<"{", "s:", "q", "{", "word", "}", "q", ",",
       "kp:", "[", "q", "{", "esum", "}", "q", "]", "}">>,
     <<"FENCE", "json", "NL", "{", "s:", "q", "FENCE", "json", "q", ",",
       "kp:", "[", "q", "{", "esum", "}", "q", "]", "}", "NL", "FENCE">>,
     <<"FENCE", "NL", "[", "1", "]", "NL", "FENCE">>,
     <<"{", "kv", "}">>,
     <<"word", "FENCE", "json", "NL", "{", "sum", "}", "NL", "FENCE">>,
     <<"long", "FENCE", "json", "NL", "{", "sum", "}", "NL", "FENCE">>,
     <<"{", "sum", ",", "kp:", "[", "str", "]", "}">>,
     <<"JR", "NL", "{", "sum", "}", "word">> >>

\* the Analysis stored for a completion text that was not parsed: the
\* fallback object with the metadata, with or without token_usage
StoredFallback(raw, usage) ==
  AddTokenUsage(AddMetadata(Fallback(raw), 0).value, usage).value

\* the Analysis stored for a completion text that was parsed
StoredParsed(raw) == Returned(BuildAnalysis(raw, "u1", 0), 0)

\* an Item without title
ArticleU == [id |-> "news_0_3"]

\* records that a per-model artifact may hold
RepairSamples ==
  [n \in 1..Len(RepairTexts) |-> Rec(ArticleA, StoredFallback(RepairTexts[n], "u1"))]
  \o << Rec(ArticleB, StoredFallback(RepairTexts[1], "absent")),
        Rec(ArticleU, StoredFallback(RepairTexts[1], "u1")),
        Rec(ArticleB, ParsedAnalysis("positive", "high")),
        Rec(ArticleB, FailedAnalysis),
        Rec(ArticleB, BareAnalysis),
        Rec(ArticleB, StoredParsed(<<"{", "s:", "1", "}">>)),
        Rec(ArticleB, StoredParsed(<<"{", "s:", "q", "{", "word", "}", "q", "}">>)),
        Rec(ArticleB, StoredParsed(<<"{", "s:", "q", "{", "q", ",", "kp:", "[", "1", "]", "}">>)),
        Rec(ArticleB, StoredParsed(<<"{", "s:", "q", "FENCE", "q", ",",
                                     "kp:", "q", "1", " ", "word", "q", "}">>)) >>

\* the files of fix_analysis_json.main and of fix_json_fences: the
\* artifacts of the four low tier models, the first ones of `models`
files_to_fix == 1..4

\* nothing of the synthesizer is running; the first artifact holds records
InitRepair ==
  /\ AnalyzerOff
  /\ spc = "off"
  /\ model_index = 0
  /\ \E n \in 0..MaxRecords : \E c \in [1..n -> 1..Len(RepairSamples)] :
       artifacts = [k \in 1..Len(models) |->
                      IF k = 1 THEN Stored([r \in 1..n |-> RepairSamples[c[r]]]) ELSE NoFile]
  /\ all_analyses = <<>>
  /\ skipped = <<>>
  /\ synthesized = <<>>
  /\ consensus = <<>>
  /\ perspectives = NoFile
  /\ repairs = <<>>
  /\ FetchOff

\* the run gave r: the artifact holds r.records and the run is recorded
Ran(pass, k, r) ==
  /\ artifacts' = [artifacts EXCEPT ![k].output.data.analyses = r.records]
  /\ repairs' = Append(repairs, [pass |-> pass, path |-> k,
                                 before |-> artifacts[k].output.data.analyses,
                                 fixed_count |-> r.fixed_count,
                                 wrote |-> r.wrote,
                                 raised |-> r.raised])

\* one run of fix_analysis_file of a pass on the artifact at path k
Repair(pass, k) ==
  /\ Len(repairs) < MaxRuns
  /\ artifacts[k].kind = "written"
  /\ Ran(pass, k, fix_analysis_file(pass, artifacts[k].output.data.analyses))
  /\ UNCHANGED <<analyzerVars, fetchVars, spc, model_index, all_analyses, skipped, synthesized,
                 consensus, perspectives>>

\* fix_analysis_json.py on one of its files
FixAnalysisJson == \E k \in files_to_fix : Repair("json", k)

\* fix_json_fences.py on one of its files
FixJsonFences == \E k \in files_to_fix : Repair("fences", k)

NextRepair ==
  \/ FixAnalysisJson
  \/ FixJsonFences

SpecRepair == InitRepair /\ [][NextRepair]_vars

----------------------------------------------------------------------------
(* NewsFetcher: agents/news_perspectives/news_fetcher.py, and the pipeline  *)
(* from the fetch to the synthesized artifact                               *)

\* NEWS_TOPICS, by default
topics == <<"TECHNOLOGY", "WORLD", "BUSINESS">>

\* what the RSS feed of a topic may hold: the titles of its items, in order
SampleFeeds ==
  << <<"first">>,
     <<"second", "First", "a long headline, one">>,
     <<"<b>first</b>", "a long headline, two", "third &amp; last">> >>

\* clean_html on the titles of SampleFeeds: tags removed, entities decoded,
\* surrounding white space stripped
clean_html(text) ==
  CASE text = "<b>first</b>" -> "first"
    [] text = "third &amp; last" -> "third & last"
    [] OTHER -> text

\* title[:50].lower() on the cleaned titles of SampleFeeds: the two long
\* headlines stand for titles that agree on their first 50 characters
TitleKey(title) ==
  CASE title = "First" -> "first"
    [] title \in {"a long headline, one", "a long headline, two"} -> "a long headline"
    [] OTHER -> title

\* f"news_{index}_{second}"
NewsId(index, second) == "news_" \o ToString(index) \o "_" \o ToString(second)

\* fetch_google_news: the first max_results items of the feed; the id of an
\* item is made of its index in this topic's list and of the unix second
\* read when the item is built
fetch_google_news(topic, max_results, feed, seconds) ==
  [k \in 1..Len(Prefix(feed, max_results)) |->
     [id |-> NewsId(k - 1, seconds[k]),
      title |-> clean_html(feed[k]),
      topic |-> topic]]

\* main: the Items whose title key was not seen before, in order
RECURSIVE UniqueArticles(_, _, _)
UniqueArticles(rest, seen_titles, unique_articles) ==
  IF rest = <<>> THEN unique_articles
  ELSE LET title_key == TitleKey(Head(rest).title)
       IN IF title_key \in seen_titles
          THEN UniqueArticles(Tail(rest), seen_titles, unique_articles)
          ELSE UniqueArticles(Tail(rest), seen_titles \cup {title_key},
                              Append(unique_articles, Head(rest)))

\* the fetcher's main starts; nothing downstream has run
InitPipeline ==
  /\ AnalyzerOff
  /\ spc = "off"
  /\ model_index = 0
  /\ artifacts = <<>>
  /\ all_analyses = <<>>
  /\ skipped = <<>>
  /\ synthesized = <<>>
  /\ consensus = <<>>
  /\ perspectives = NoFile
  /\ repairs = <<>>
  /\ fpc = "fetch"
  /\ topic_index = 1
  /\ utcnow = 1
  /\ all_articles = <<>>
  /\ news = NoFile

\* main: the topic at topic_index is fetched; the clock is read once per
\* item and never goes back
FetchTopic ==
  /\ fpc = "fetch"
  /\ topic_index <= Len(topics)
  /\ \E f \in 1..Len(SampleFeeds) : \E later \in utcnow..MaxSeconds :
       \E seconds \in [1..Len(Prefix(SampleFeeds[f], MaxPerTopic)) -> utcnow..later] :
         /\ \A k \in 2..Len(Prefix(SampleFeeds[f], MaxPerTopic)) : seconds[k - 1] <= seconds[k]
         /\ all_articles' = all_articles \o
                            fetch_google_news(topics[topic_index], MaxPerTopic,
                                              SampleFeeds[f], seconds)
         /\ utcnow' = later
  /\ topic_index' = topic_index + 1
  /\ UNCHANGED <<analyzerVars, synthVars, repairVars, fpc, news>>

\* main: the topic at topic_index yields nothing: the request or the parse
\* raised and fetch_google_news returned [], or the feed has no item
FetchNothing ==
  /\ fpc = "fetch"
  /\ topic_index <= Len(topics)
  /\ \E later \in utcnow..MaxSeconds : utcnow' = later
  /\ topic_index' = topic_index + 1
  /\ UNCHANGED <<analyzerVars, synthVars, repairVars, fpc, all_articles, news>>

\* main: every topic was fetched: duplicates by title are dropped and the
\* fetch-stage artifact is written
SaveNews ==
  /\ fpc = "fetch"
  /\ topic_index > Len(topics)
  /\ LET unique_articles == UniqueArticles(all_articles, {}, <<>>)
     IN news' = Written([data |-> [articles |-> unique_articles,
                                   count |-> Len(unique_articles),
                                   topics |-> topics]])
  /\ fpc' = "done"
  /\ UNCHANGED <<analyzerVars, synthVars, repairVars, topic_index, utcnow, all_articles>>

\* the records a ModelAnalyzer run stores for the Items: one per Item, in
\* order
AnalyzedBy(k, items) ==
  [r \in 1..Len(items) |->
     Rec(items[r], ParsedAnalysis(IF k % 2 = 1 THEN "positive" ELSE "negative", "high"))]

\* the ModelAnalyzer runs of the first n models of the static list over
\* the fetch-stage artifact, each leaving its per-model artifact; then the
\* synthesizer's main starts
RunAnalyzers ==
  /\ fpc = "done"
  /\ spc = "off"
  /\ \E n \in 0..MaxLoaded :
       artifacts' = [k \in 1..Len(models) |->
                       IF k <= n THEN Stored(AnalyzedBy(k, news.output.data.articles))
                       ELSE NoFile]
  /\ spc' = "load"
  /\ model_index' = 1
  /\ UNCHANGED <<analyzerVars, repairVars, fetchVars, all_analyses, skipped, synthesized,
                 consensus, perspectives>>

NextPipeline ==
  \/ FetchTopic
  \/ FetchNothing
  \/ SaveNews
  \/ RunAnalyzers
  \/ LoadFound
  \/ LoadMissing
  \/ Synthesize
  \/ CalculateConsensus
  \/ SavePerspectives

SpecPipeline == InitPipeline /\ [][NextPipeline]_vars

----------------------------------------------------------------------------
(* Reading the history *)

RECURSIVE SumSeq(_)
SumSeq(q) == IF q = <<>> THEN 0 ELSE Head(q) + SumSeq(Tail(q))

ItemNumbers == 1..Len(articles)

\* the transport requests made for item k, in order
Requests(k) == SelectSeq(log, LAMBDA e : e.ev = "request" /\ e.item = k)

\* the backoff sleeps of the call for item k, in order
Sleeps(k) ==
  LET evs == SelectSeq(log, LAMBDA e : e.ev = "backoff" /\ e.item = k)
  IN [j \in 1..Len(evs) |-> evs[j].n]

\* requests and sleeps of the call for item k
CallEvents(k) ==
  SelectSeq(log, LAMBDA e : e.ev \in {"request", "backoff"} /\ e.item = k)

\* analyze_article has returned for item k, and what it returned
HasReturned(k) == k <= Len(analyzed) \/ (k = i /\ pc = "track")
ReturnedFor(k) == IF k <= Len(analyzed) THEN analyzed[k].analysis ELSE analysis

IsError(a) == "error" \in DOMAIN a

\* the Analysis that request event e, the last of its call, leads to
AnalysisOf(e) ==
  IF e.what = "ok"
  THEN Returned(BuildAnalysis(e.content, e.usage, e.at), e.at)
  ELSE ErrorAnalysis(Exc(e.what, Message(e.what)), e.at)

LastRequest(k) == Requests(k)[Len(Requests(k))]

\* analyze_articles has returned to run
BatchReturned ==
  pc \in {"save", "dump", "done"}

Count(ev) == Len(SelectSeq(log, LAMBDA e : e.ev = ev))

----------------------------------------------------------------------------
(* Claims *)

\* C1: one analyze_article call makes at most 3 requests, a further request
\* only after a rate-limit failure of the previous one, none after the
\* first successful response, and the Analysis it returns is built from
\* that first successful response.
C1_BoundedRetry ==
  \A k \in ItemNumbers :
    LET reqs == Requests(k) IN
    /\ Len(reqs) <= 3
    /\ \A j \in 2..Len(reqs) : reqs[j - 1].what = "RateLimitError"
    /\ \A j \in 1..Len(reqs) : reqs[j].what = "ok" => j = Len(reqs)
    /\ \A j \in 1..Len(reqs) :
         reqs[j].what = "ok" =>
           /\ HasReturned(k)
           /\ ReturnedFor(k) =
                Returned(BuildAnalysis(reqs[j].content, reqs[j].usage, reqs[j].at),
                         reqs[j].at)

\* a call that was rate-limited twice, succeeded on the third request and
\* whose Analysis is recorded
C1_Witness ==
  \E k \in ItemNumbers :
    /\ Len(Requests(k)) = 3
    /\ Requests(k)[3].what = "ok"
    /\ k <= Len(analyzed)
    /\ ~IsError(analyzed[k].analysis)

\* C2: a transport failure that is not a rate-limit signal, on any attempt,
\* is never retried: no sleep and no further request follows it, and it
\* ends the call at once with an error outcome.
C2_NoRetryOnOtherFailure ==
  /\ \A k \in ItemNumbers :
       LET evs == CallEvents(k) IN
       \A j \in 1..Len(evs) :
         (evs[j].ev = "request" /\ evs[j].what \in OtherFailures) =>
           /\ j = Len(evs)
           /\ HasReturned(k)
           /\ IsError(ReturnedFor(k))
           /\ ReturnedFor(k).error_type = Lit(evs[j].what)
  /\ (log # <<>> /\ log[Len(log)].ev = "request"
        /\ log[Len(log)].what \in OtherFailures) =>
       /\ pc = "track"
       /\ IsError(analysis)
       /\ clock = log[Len(log)].at

\* a failure that is not a rate limit on the third attempt, recorded
C2_Witness ==
  \E k \in ItemNumbers :
    /\ Len(Requests(k)) = 3
    /\ Requests(k)[3].what \in OtherFailures
    /\ k <= Len(analyzed)

\* whether the call for item k has returned with every attempt rate-limited
AllRateLimited(k) ==
  /\ HasReturned(k)
  /\ \A j \in 1..Len(Requests(k)) : Requests(k)[j].what = "RateLimitError"

\* C3 as stated: when every attempt of one call is rate-limited the caller
\* sleeps 2 s, 4 s and 8 s (14 s in total) before giving up, and no call
\* accumulates more than 14 s of backoff sleep.
C3_Original ==
  \A k \in ItemNumbers :
    /\ AllRateLimited(k) =>
         /\ Sleeps(k) = <<2, 4, 8>>
         /\ SumSeq(Sleeps(k)) = 14
    /\ SumSeq(Sleeps(k)) <= 14

\* C3 amended: when every attempt of one call is rate-limited the caller
\* sleeps 2 s and 4 s (6 s of backoff in total) and gives up on the third
\* attempt with the rate-limit failure of that attempt, without sleeping
\* after it; no call ever accumulates more than 6 s of backoff sleep.
C3_Amended ==
  \A k \in ItemNumbers :
    /\ AllRateLimited(k) =>
         /\ Len(Requests(k)) = 3
         /\ Sleeps(k) = <<2, 4>>
         /\ SumSeq(Sleeps(k)) = 6
         /\ IsError(ReturnedFor(k))
         /\ ReturnedFor(k).error_type = Lit("RateLimitError")
         /\ ReturnedFor(k).analyzed_at = Num(LastRequest(k).at)
    /\ SumSeq(Sleeps(k)) <= 6

\* a call whose three attempts were all rate-limited, recorded
C3_Witness ==
  \E k \in ItemNumbers :
    /\ k <= Len(analyzed)
    /\ AllRateLimited(k)

\* C4: analyze_article never raises for a transport failure: after retries
\* are exhausted on rate limits, or after any other transport exception, it
\* returns an Analysis with error set to the exception message, sentiment
\* "unknown", a placeholder summary and the analyzer's model metadata.
C4_ErrorAnalysisReturned ==
  /\ \A k \in ItemNumbers :
       (Requests(k) # <<>> /\ LastRequest(k).what # "ok"
          /\ ~(LastRequest(k).what = "RateLimitError" /\ Len(Requests(k)) < 3)) =>
         /\ HasReturned(k)
         /\ LET a == ReturnedFor(k)
                msg == Message(LastRequest(k).what)
            IN /\ IsError(a)
               /\ a.error = Str(msg)
               /\ a.sentiment = Lit("unknown")
               /\ a.summary = Str(<<"Analysis failed: ">> \o msg)
               /\ a.model = display_name
               /\ a.model_id = model_name
               /\ "analyzed_at" \in DOMAIN a
  /\ pc = "raised" => log = <<>>

\* one call gave up after three rate limits and another failed otherwise,
\* and both returned an Analysis that was recorded
C4_Witness ==
  /\ Len(analyzed) >= 2
  /\ \E k \in 1..Len(analyzed) :
       /\ Len(Requests(k)) = 3
       /\ LastRequest(k).what = "RateLimitError"
  /\ \E k \in 1..Len(analyzed) : LastRequest(k).what \in OtherFailures

\* C5 as stated: malformed completion text is never an error; for every
\* text the transport returns successfully analyze_article returns an
\* Analysis without error set, resolved as clean, recovered or fallback.
C5_TextNeverAnError ==
  xpc = "returned" =>
    /\ ~IsError(xout.analysis)
    /\ xout.quality \in {"clean", "recovered", "fallback"}

\* C6: analyze_articles returns exactly one {article, analysis} record per
\* input item, in input order, each pairing the item with its own Analysis;
\* a failure on item i never prevents items i+1.. from being requested and
\* recorded.
C6_OneRecordPerItem ==
  /\ Len(analyzed) <= Len(articles)
  /\ \A k \in 1..Len(analyzed) :
       /\ analyzed[k].article = articles[k]
       /\ Requests(k) # <<>>
       /\ analyzed[k].analysis = AnalysisOf(LastRequest(k))
  /\ BatchReturned =>
       /\ Len(analyzed) = Len(articles)
       /\ \A k \in ItemNumbers :
            Len(SelectSeq(log, LAMBDA e : e.ev = "record" /\ e.item = k)) = 1

\* the batch returned two records, the first an error Analysis and the
\* second a successful one
C6_Witness ==
  /\ BatchReturned
  /\ Len(analyzed) = 2
  /\ IsError(analyzed[1].analysis)
  /\ ~IsError(analyzed[2].analysis)

\* positions of the history
Positions == 1..Len(log)

\* C7: items are processed strictly one at a time: the requests for item
\* i+1 start only after the record for item i is appended and one 1-second
\* pacing delay has elapsed; for n items exactly max(n-1, 0) pacing delays
\* occur, none after the last item, after a failed item as well as after a
\* successful one.
C7_SequentialPacing ==
  /\ \A p \in Positions :
       (log[p].ev = "request" /\ log[p].item > 1) =>
         \E q, r \in Positions :
           /\ q < r /\ r < p
           /\ log[q].ev = "record" /\ log[q].item = log[p].item - 1
           /\ log[r].ev = "pace" /\ log[r].item = log[p].item - 1
           /\ log[r].n = 1
           /\ log[p].at >= log[q].at + 1
  /\ \A p, q \in Positions :
       (p < q /\ log[p].item > 0 /\ log[q].item > 0) => log[p].item <= log[q].item
  /\ \A k \in ItemNumbers :
       LET paces == SelectSeq(log, LAMBDA e : e.ev = "pace" /\ e.item = k) IN
       /\ Len(paces) <= 1
       /\ k = Len(articles) => paces = <<>>
       /\ (BatchReturned /\ k < Len(articles)) => Len(paces) = 1
  /\ BatchReturned =>
       Count("pace") = IF Len(articles) >= 1 THEN Len(articles) - 1 ELSE 0

\* the batch of two items returned after one pacing delay, which followed a
\* failed first item
C7_Witness ==
  /\ BatchReturned
  /\ Len(articles) = 2
  /\ IsError(analyzed[1].analysis)
  /\ Count("pace") = 1

\* the sum over the recorded calls that succeeded of the usage counter
\* `key` the transport reported with the response
RECURSIVE UsageSum(_, _)
UsageSum(k, key) ==
  IF k = 0 THEN 0
  ELSE UsageSum(k - 1, key)
         + (IF IsError(analyzed[k].analysis) THEN 0
            ELSE UsageOf(LastRequest(k).usage)[key])

\* C8: the aggregate token usage equals, for each of prompt, completion and
\* total tokens, the sum of the token_usage counters over exactly the
\* records whose call succeeded; error Analyses contribute 0 and every
\* successful call's usage is counted exactly once.
C8_TokenTotals ==
  /\ \A key \in {"prompt_tokens", "completion_tokens", "total_tokens"} :
       total_tokens[key] = UsageSum(Len(analyzed), key)
  /\ \A k \in 1..Len(analyzed) :
       LET a == analyzed[k].analysis IN
       /\ IsError(a) => "token_usage" \notin DOMAIN a
       /\ (~IsError(a) /\ LastRequest(k).usage # "absent") =>
            /\ "token_usage" \in DOMAIN a
            /\ \A key \in {"prompt_tokens", "completion_tokens", "total_tokens"} :
                 a["token_usage"].d[key] = Num(UsageOf(LastRequest(k).usage)[key])

\* the batch returned one error Analysis and one successful Analysis that
\* carries token usage
C8_Witness ==
  /\ BatchReturned
  /\ Len(analyzed) = 2
  /\ \E k \in 1..2 : IsError(analyzed[k].analysis)
  /\ \E k \in 1..2 :
       /\ ~IsError(analyzed[k].analysis)
       /\ "token_usage" \in DOMAIN analyzed[k].analysis
  /\ total_tokens["total_tokens"] > 0

\* every input item has been analyzed
AllAnalyzed == i > Len(articles) /\ i >= 1 /\ Len(analyzed) = Len(articles)

\* C9: a run writes its per-model artifact exactly once, and only after
\* every input item has been analyzed; a run terminated at any earlier
\* point leaves no new per-model artifact on disk, and the written artifact
\* has data.count equal to the length of data.analyses and to the number of
\* input items.
C9_SingleWriteAtEnd ==
  /\ Count("write") <= 1
  /\ pc = "done" => Count("write") = 1
  /\ disk.kind \in {"truncated", "written"} => AllAnalyzed
  /\ (~alive /\ ~AllAnalyzed) => disk = NoFile
  /\ Count("write") = 1 <=> disk.kind = "written"
  /\ disk.kind = "written" =>
       /\ disk.output.data.count = Len(disk.output.data.analyses)
       /\ disk.output.data.count = Len(articles)
       /\ disk.output.data.analyses = analyzed

\* a finished run over two items whose artifact holds two records
C9_Witness ==
  /\ pc = "done"
  /\ disk.kind = "written"
  /\ disk.output.data.count = 2

\* C10 as stated: extraction accepts a parsed value (direct parse or
\* brace-matched substring) only if it is an object containing a summary
\* key; text that parses as JSON but has no summary key is not returned as
\* clean or recovered and ends in the fallback object.
C10_SummaryRequired ==
  xpc = "returned" =>
    /\ xout.quality \in {"clean", "recovered"} =>
         /\ xout.val.t = "dict"
         /\ "summary" \in DOMAIN xout.val.d
    /\ (Loads(xout.content).ok
          /\ ~(Loads(xout.content).val.t = "dict"
                 /\ "summary" \in DOMAIN Loads(xout.content).val.d)) =>
         xout.val = Fallback(xout.content)

\* C11 as stated: for completion text with no extractable JSON object the
\* extractor returns the fallback object: summary = the first 300 characters
\* of the raw text, key_points = the one-element list holding the original
\* raw text as received (fence line included), sentiment neutral,
\* confidence medium and the remaining text fields empty.
C11_FallbackFromRawText ==
  (xpc = "returned" /\ xout.quality = "fallback") =>
    /\ xout.val.t = "dict"
    /\ DOMAIN xout.val.d = {"summary", "key_points", "sentiment", "confidence",
                            "bias_check", "missing_context", "implications"}
    /\ xout.val.d["summary"] = Str(Prefix(xin, SummaryLimit))
    /\ xout.val.d["key_points"] = List(<<Str(xin)>>)
    /\ xout.val.d["sentiment"] = Lit("neutral")
    /\ xout.val.d["confidence"] = Lit("medium")
    /\ \A f \in {"bias_check", "missing_context", "implications"} :
         xout.val.d[f] = Str(<<>>)

----------------------------------------------------------------------------
(* Extraction from wrapped text *)

\* the text in hand is the object j after n lexemes of prose and before
\* some more prose, both non-empty
WrappedAs(j, n) ==
  /\ n >= 1
  /\ n + Len(j) < Len(xin)
  /\ Len(xin) - n - Len(j) <= MaxProseLen
  /\ SubSeq(xin, n + 1, n + Len(j)) = j
  /\ \A k \in 1..n : xin[k] \in LeadingChars
  /\ \A k \in (n + Len(j) + 1)..Len(xin) : xin[k] \in ProseChars

\* C12 as stated: for a valid JSON object with summary preceded and
\* followed by prose, extraction returns exactly the parsed inner object,
\* for every prose (braces included) and every object (braces in string
\* values included).
C12_Original ==
  xpc = "returned" =>
    \A j \in Objects, n \in 1..MaxProseLen :
      WrappedAs(j, n) => xout.val = Loads(j).val

\* counting every brace of j, inside string values too, the depth first
\* returns to zero at j's last character
Depth(j, k) ==
  Cardinality({m \in 1..k : j[m] = "{"}) - Cardinality({m \in 1..k : j[m] = "}"})
BalancedToEnd(j) ==
  /\ \A k \in 1..(Len(j) - 1) : Depth(j, k) > 0
  /\ Depth(j, Len(j)) = 0

\* C12 amended: when the text does not open with a fence marker, the prose
\* before the object holds no opening brace, and the brace depth counted
\* over every character of the object (string values included) first
\* returns to zero at its closing brace, extraction returns exactly the
\* parsed inner object, as recovered (clean when the prose is blank).
C12_Amended ==
  xpc = "returned" =>
    \A j \in Objects, n \in 1..MaxProseLen :
      ( /\ WrappedAs(j, n)
        /\ ~StartsWithFence(Strip(xin))
        /\ \A k \in 1..n : xin[k] # "{"
        /\ BalancedToEnd(j) ) =>
        /\ xout.val = Loads(j).val
        /\ xout.quality = IF \A k \in 1..Len(xin) :
                                k \in (n + 1)..(n + Len(j)) \/ xin[k] = " "
                          THEN "clean" ELSE "recovered"
        /\ ~IsError(xout.analysis)
        /\ \A f \in DOMAIN Loads(j).val.d :
             xout.analysis[f] = Loads(j).val.d[f]

\* a nested object with a brace-holding string value, between words and
\* braces of prose, was recovered
C12_Witness ==
  /\ xpc = "returned"
  /\ \E n \in 1..MaxProseLen :
       LET j == <<"{", "sum", ",", "k:", "q", "{", "}", "q", "}">> IN
       /\ WrappedAs(j, n)
       /\ xin[1] = "word"
       /\ xin[Len(xin)] = "}"
       /\ xout.quality = "recovered"
       /\ xout.val = Loads(j).val

\* the text in hand is the object j between the fence lines o and c
FencedAs(o, j, c) ==
  /\ Len(xin) = Len(o) + Len(j) + Len(c)
  /\ xin = o \o j \o c

\* C13: for every valid JSON object J with summary, extraction from J in a
\* single fenced block (opening fence line with or without language tag,
\* J, closing fence on its own line, blanks around) yields the analysis
\* that extraction from J alone yields, whose fields are the parsed J
\* exactly.
C13_FencedSameAsBare ==
  xpc = "returned" =>
    \A j \in Objects : \A o \in FenceOpenings, c \in FenceClosings :
      FencedAs(o, j, c) =>
        /\ xout.content # xin
        /\ xout.val = Loads(j).val
        /\ xout.val = ParseContent(StripFences(j)).val
        /\ xout.analysis = Returned(BuildAnalysis(j, "u1", clock), clock)
        /\ ~IsError(xout.analysis)
        /\ \A f \in DOMAIN Loads(j).val.d :
             xout.analysis[f] = Loads(j).val.d[f]

\* a multi-line object in a tagged, indented fence with a blank-padded
\* closing line was extracted
C13_Witness ==
  /\ xpc = "returned"
  /\ LET j == <<"{", " ", "sum", ",", "NL", "k:", "[", "1", ",", "str", "]", "}">> IN
     /\ FencedAs(<<" ", "FENCE", "json", " ", "NL">>, j, <<"NL", "FENCE", " ", "NL">>)
     /\ xout.val = Loads(j).val
     /\ xout.analysis["summary"] = Lit("s")

----------------------------------------------------------------------------
(* The synthesizer *)

\* the loaded artifacts are the listed ones not skipped, in list order
LoadedInOrder ==
  LET tried == 1..(model_index - 1)
      gone == {skipped[k].index : k \in 1..Len(skipped)}
      kept == SelectSeq([k \in 1..(model_index - 1) |-> k], LAMBDA k : k \notin gone)
  IN /\ gone \subseteq tried
     /\ Len(all_analyses) = Len(kept)
     /\ \A k \in 1..Len(kept) : all_analyses[k].model = models[kept[k]].name

\* every record of every loaded artifact is an error Analysis
AllErrors ==
  \A k \in 1..Len(all_analyses) : \A r \in 1..Len(all_analyses[k].analyses) :
    IsError(all_analyses[k].analyses[r].analysis)

\* C14: whichever of the 8 listed artifacts are on disk (none, some, all;
\* also when all their records are error Analyses), main never raises for
\* a missing file, skips each missing artifact and writes the synthesized
\* artifact, with an empty article list and agreement 0 when nothing was
\* loaded.
C14_MissingArtifactsSkipped ==
  /\ spc \in {"load", "synthesize", "consensus", "save", "done"}
  /\ LoadedInOrder
  /\ spc = "load" => model_index \in 1..Len(models) /\ perspectives = NoFile
  /\ spc \in {"synthesize", "consensus", "save"} =>
       model_index = Len(models) + 1 /\ perspectives = NoFile
  /\ spc = "done" =>
       /\ perspectives.kind = "written"
       /\ perspectives.output.data.articles = synthesize_perspectives(all_analyses)
       /\ perspectives.output.data.count = Len(perspectives.output.data.articles)
       /\ perspectives.output.data.models = ModelNames
       /\ all_analyses = <<>> =>
            /\ perspectives.output.data.articles = <<>>
            /\ perspectives.output.data.consensus.agreement_percentage = 0
            /\ perspectives.output.data.consensus.total_analyses = 0
       /\ (all_analyses # <<>> /\ AllErrors) =>
            /\ Len(perspectives.output.data.articles) = 1
            /\ perspectives.output.data.articles[1].consensus.agreement_percentage = 0
            /\ perspectives.output.data.articles[1].consensus.models_analyzed
                 = Len(all_analyses)

\* none of the 8 artifacts was on disk and the synthesized artifact was
\* written with no article
C14_Witness ==
  /\ spc = "done"
  /\ Len(skipped) = Len(models)
  /\ \A k \in 1..Len(skipped) : skipped[k].why = "not found"
  /\ perspectives.kind = "written"
  /\ perspectives.output.data.articles = <<>>
  /\ perspectives.output.data.consensus.agreement_percentage = 0

\* synthesize_perspectives and calculate_consensus have returned
Synthesized == spc \in {"consensus", "save", "done"}
Concluded == spc \in {"save", "done"}

\* every record handed to the synthesis, with the name of its artifact's
\* model, in encounter order
RECURSIVE AllRecords(_)
AllRecords(loaded) ==
  IF loaded = <<>> THEN <<>>
  ELSE [k \in 1..Len(Head(loaded).analyses) |->
          [model |-> Head(loaded).model,
           article |-> Head(loaded).analyses[k].article,
           analysis |-> Head(loaded).analyses[k].analysis]]
       \o AllRecords(Tail(loaded))

\* the join key of an Item: id, or title when id is absent
JoinKey(article) ==
  IF "id" \in DOMAIN article THEN article["id"]
  ELSE IF "title" \in DOMAIN article THEN article["title"] ELSE ""

RecordsOf(key) == SelectSeq(AllRecords(all_analyses), LAMBDA r : JoinKey(r.article) = key)

\* C15: records whose Items have the identical join key (id, or title when
\* id is absent, by string equality) are merged into exactly one
\* SynthesizedArticle with one PerspectiveEntry per such record; records
\* with different keys are never merged: one SynthesizedArticle per
\* distinct key.
C15_JoinByKey ==
  Synthesized =>
    LET recs == AllRecords(all_analyses) IN
    /\ \A a, b \in 1..Len(synthesized) :
         a # b => JoinKey(synthesized[a].article) # JoinKey(synthesized[b].article)
    /\ {JoinKey(synthesized[a].article) : a \in 1..Len(synthesized)}
         = {JoinKey(recs[k].article) : k \in 1..Len(recs)}
    /\ \A a \in 1..Len(synthesized) :
         LET mine == RecordsOf(JoinKey(synthesized[a].article))
             entries == synthesized[a].perspectives
         IN /\ Len(entries) = Len(mine)
            /\ synthesized[a].article = mine[1].article
            /\ synthesized[a].consensus.models_analyzed = Len(mine)
            /\ \A k \in 1..Len(mine) :
                 /\ entries[k].model = mine[k].model
                 /\ entries[k].summary = Get(mine[k].analysis, "summary", Str(<<>>))
                 /\ entries[k].sentiment = Get(mine[k].analysis, "sentiment", Lit("unknown"))

\* three artifacts had a record of the item news_0_1 (one of them naming it
\* by title only) and one a record of another item with the same title:
\* that other item is an article of its own, after the one with three entries
C15_Witness ==
  /\ Synthesized
  /\ Len(synthesized) = 3
  /\ JoinKey(synthesized[1].article) = "news_0_1"
  /\ Len(synthesized[1].perspectives) = 3
  /\ \E k \in 1..3 : synthesized[1].perspectives[k].model = "Phi-4 Mini"
  /\ \E k \in 1..Len(all_analyses) : \E r \in 1..Len(all_analyses[k].analyses) :
       all_analyses[k].analyses[r].article = ArticleT
  /\ synthesized[2].article = ArticleC

\* the sentiments of an article's entries, in encounter order
EntrySentiments(s) == [k \in 1..Len(s.perspectives) |-> s.perspectives[k].sentiment]

\* c(v): the number of the article's entries whose sentiment is v
Votes(s, v) == Cardinality({k \in 1..Len(s.perspectives) : s.perspectives[k].sentiment = v})

\* the values that count: every sentiment of an entry except unknown
Voted(s) == {s.perspectives[k].sentiment : k \in 1..Len(s.perspectives)} \ {Lit("unknown")}

\* the sum of c over the values that count
RECURSIVE VotesCast(_, _)
VotesCast(s, values) ==
  IF values = {} THEN 0
  ELSE LET v == CHOOSE x \in values : TRUE
       IN Votes(s, v) + VotesCast(s, values \ {v})

\* tenths is count / total * 100 rounded to one decimal
IsRounded(tenths, count, total) ==
  LET diff == tenths * total - count * 1000
  IN 2 * diff <= total /\ 2 * (0 - diff) <= total

\* C16: per article, with c(v) the number of entries whose sentiment is v
\* (unknown not counted), the dominant sentiment is a value of maximal c
\* and the agreement percentage is c(dominant) / sum of c x 100 rounded to
\* one decimal; [positive, positive, negative] gives positive and 66.7.
C16_ArticleConsensus ==
  Synthesized =>
    \A a \in 1..Len(synthesized) :
      LET s == synthesized[a]
          total == VotesCast(s, Voted(s))
      IN /\ total > 0 =>
              /\ s.consensus.dominant_sentiment \in Voted(s)
              /\ \A v \in Voted(s) : Votes(s, v) <= Votes(s, s.consensus.dominant_sentiment)
              /\ IsRounded(s.consensus.agreement_percentage,
                           Votes(s, s.consensus.dominant_sentiment), total)
         /\ {s.consensus.sentiment_distribution[k].value :
               k \in 1..Len(s.consensus.sentiment_distribution)} = Voted(s)
         /\ \A k \in 1..Len(s.consensus.sentiment_distribution) :
              s.consensus.sentiment_distribution[k].count
                = Votes(s, s.consensus.sentiment_distribution[k].value)
         /\ EntrySentiments(s) = <<Lit("positive"), Lit("positive"), Lit("negative")>> =>
              /\ s.consensus.dominant_sentiment = Lit("positive")
              /\ s.consensus.agreement_percentage = 667

\* an article with sentiments positive, positive, negative came out as
\* positive at 66.7
C16_Witness ==
  /\ Synthesized
  /\ \E a \in 1..Len(synthesized) :
       /\ EntrySentiments(synthesized[a])
            = <<Lit("positive"), Lit("positive"), Lit("negative")>>
       /\ synthesized[a].consensus.agreement_percentage = 667

\* the number of v among the first n sentiments
VotesUpTo(sentiments, v, n) == Cardinality({k \in 1..n : sentiments[k] = v})

\* the position at which v reaches the count m, 0 if it never does
ReachedAt(sentiments, v, m) ==
  LET at == {n \in 1..Len(sentiments) : VotesUpTo(sentiments, v, n) = m}
  IN IF at = {} THEN 0 ELSE CHOOSE n \in at : \A k \in at : n <= k

\* the position of the first occurrence of v
FirstAt(sentiments, v) == ReachedAt(sentiments, v, 1)

\* the values tied for the highest count in an article, when two or more
TiedValues(s) ==
  LET top == {v \in Voted(s) : \A w \in Voted(s) : Votes(s, w) <= Votes(s, v)}
  IN IF Cardinality(top) >= 2 THEN top ELSE {}

\* the sentiments that count, in encounter order
CountedSentiments(s) ==
  SelectSeq(EntrySentiments(s), LAMBDA x : x # Lit("unknown"))

\* C17 as stated: when two or more sentiment values tie for the highest
\* count, the dominant sentiment is the tied value that reaches the maximal
\* count first in encounter order.
C17_Original ==
  Synthesized =>
    \A a \in 1..Len(synthesized) :
      LET s == synthesized[a]
          seen == CountedSentiments(s)
          dominant == s.consensus.dominant_sentiment
      IN \A v \in TiedValues(s) :
           ReachedAt(seen, dominant, Votes(s, dominant)) <= ReachedAt(seen, v, Votes(s, v))

\* C17 amended: when two or more sentiment values tie for the highest
\* count, the dominant sentiment is the tied value that occurs first in
\* encounter order, wherever the values reach the maximal count.
C17_Amended ==
  Synthesized =>
    \A a \in 1..Len(synthesized) :
      LET s == synthesized[a]
          seen == CountedSentiments(s)
          dominant == s.consensus.dominant_sentiment
      IN TiedValues(s) # {} =>
           /\ dominant \in TiedValues(s)
           /\ \A v \in TiedValues(s) : FirstAt(seen, dominant) <= FirstAt(seen, v)

\* for positive, negative, negative, positive the dominant sentiment is
\* positive, although negative is the first to reach two
C17_Witness ==
  /\ Synthesized
  /\ \E a \in 1..Len(synthesized) :
       /\ EntrySentiments(synthesized[a])
            = <<Lit("positive"), Lit("negative"), Lit("negative"), Lit("positive")>>
       /\ synthesized[a].consensus.dominant_sentiment = Lit("positive")
       /\ synthesized[a].consensus.agreement_percentage = 500

\* C18: for an article with zero non-unknown sentiments (every contributing
\* Analysis is an error or lacks a sentiment) the agreement percentage is
\* exactly 0, the sentiment distribution is empty and the dominant
\* sentiment is the fixed fallback value, "mixed", the same for every such
\* article.
C18_NoVotes ==
  Synthesized =>
    \A a \in 1..Len(synthesized) :
      LET s == synthesized[a]
          mine == RecordsOf(JoinKey(s.article))
      IN (\A k \in 1..Len(mine) :
            \/ IsError(mine[k].analysis)
            \/ "sentiment" \notin DOMAIN mine[k].analysis) =>
           /\ s.consensus.agreement_percentage = 0
           /\ s.consensus.sentiment_distribution = <<>>
           /\ s.consensus.dominant_sentiment = Lit("mixed")
           /\ s.consensus.models_analyzed = Len(mine)

\* an article whose entries came from an error Analysis and from an
\* Analysis without sentiment got the fallback, next to an article with a
\* dominant sentiment of its own
C18_Witness ==
  /\ Synthesized
  /\ \E a, b \in 1..Len(synthesized) :
       LET mine == RecordsOf(JoinKey(synthesized[a].article)) IN
       /\ \E k \in 1..Len(mine) : IsError(mine[k].analysis)
       /\ \E k \in 1..Len(mine) : "sentiment" \notin DOMAIN mine[k].analysis
       /\ synthesized[a].consensus.dominant_sentiment = Lit("mixed")
       /\ synthesized[a].consensus.agreement_percentage = 0
       /\ synthesized[b].consensus.dominant_sentiment = Lit("positive")

\* the entries of all records of all loaded artifacts, as one article's
AllEntries ==
  LET recs == AllRecords(all_analyses)
  IN [k \in 1..Len(recs) |-> Perspective(recs[k].model, recs[k].analysis)]

\* C19 as stated: the global dominant sentiment and agreement percentage
\* are the per-article consensus computation applied to the sentiments of
\* all records of all loaded artifacts taken together, also when some are
\* error Analyses with sentiment unknown.
C19_GlobalSameFormula ==
  Concluded =>
    /\ consensus.dominant_sentiment = ArticleConsensus(AllEntries).dominant_sentiment
    /\ consensus.agreement_percentage = ArticleConsensus(AllEntries).agreement_percentage

\* the records that are not error Analyses and state the sentiment v
Voters(recs, v) ==
  {k \in 1..Len(recs) :
     /\ ~IsError(recs[k].analysis)
     /\ "sentiment" \in DOMAIN recs[k].analysis
     /\ recs[k].analysis["sentiment"] = v}

\* the records that are not error Analyses and state a sentiment
AllVoters(recs) ==
  {k \in 1..Len(recs) :
     ~IsError(recs[k].analysis) /\ "sentiment" \in DOMAIN recs[k].analysis}

\* a distribution counts the votes of recs and nothing else, the agreement
\* is the dominant value's share of them, and a dominant value taken from
\* the distribution has a voter
CountsOnlyVotes(dist, dominant, agreement, recs) ==
  /\ \A k \in 1..Len(dist) : dist[k].count = Cardinality(Voters(recs, dist[k].value))
  /\ AllVoters(recs) # {} =>
       IsRounded(agreement, Cardinality(Voters(recs, dominant)), Cardinality(AllVoters(recs)))
  /\ AllVoters(recs) = {} => agreement = 0
  /\ dist # <<>> => Voters(recs, dominant) # {}

\* C20 as stated: an Analysis with error set is never a vote: it adds to no
\* bucket of the per-article nor of the global sentiment distribution, it
\* is not in the denominator of either agreement percentage, and it never
\* makes the dominant sentiment of an article or of the global consensus.
C20_ErrorNeverVotes ==
  Concluded =>
    /\ \A a \in 1..Len(synthesized) :
         CountsOnlyVotes(synthesized[a].consensus.sentiment_distribution,
                         synthesized[a].consensus.dominant_sentiment,
                         synthesized[a].consensus.agreement_percentage,
                         RecordsOf(JoinKey(synthesized[a].article)))
    /\ CountsOnlyVotes(consensus.sentiment_distribution,
                       consensus.dominant_sentiment,
                       consensus.agreement_percentage,
                       AllRecords(all_analyses))

----------------------------------------------------------------------------
(* C21: the order of the synthesized articles *)

\* the position, in encounter order, of the first record with the join key
FirstEncounter(key) ==
  LET recs == AllRecords(all_analyses)
  IN CHOOSE k \in 1..Len(recs) :
       /\ JoinKey(recs[k].article) = key
       /\ \A m \in 1..(k - 1) : JoinKey(recs[m].article) # key

\* C21: the synthesized article sequence is ordered by non-increasing
\* perspective count, and any two articles with equal perspective count
\* appear in the order in which their join keys were first encountered
\* while scanning the artifacts in static model-list order.
C21_SortedByCoverage ==
  Synthesized =>
    \A a, b \in 1..Len(synthesized) :
      a < b =>
        /\ Len(synthesized[a].perspectives) >= Len(synthesized[b].perspectives)
        /\ Len(synthesized[a].perspectives) = Len(synthesized[b].perspectives)
             => FirstEncounter(JoinKey(synthesized[a].article))
                  < FirstEncounter(JoinKey(synthesized[b].article))

\* three articles: the one met second has the most entries and comes first,
\* the ones met first and third have one entry each and keep their order
C21_Witness ==
  /\ Synthesized
  /\ Len(synthesized) = 3
  /\ Len(synthesized[1].perspectives) = 2
  /\ Len(synthesized[2].perspectives) = 1
  /\ Len(synthesized[3].perspectives) = 1
  /\ FirstEncounter(JoinKey(synthesized[1].article)) = 2
  /\ FirstEncounter(JoinKey(synthesized[2].article)) = 1

----------------------------------------------------------------------------
(* C22: the global confidence histogram *)

\* the number of loaded records whose confidence is exactly the word v
WithConfidence(v) ==
  LET recs == AllRecords(all_analyses)
  IN Cardinality({k \in 1..Len(recs) :
                    /\ "confidence" \in DOMAIN recs[k].analysis
                    /\ recs[k].analysis["confidence"] = Lit(v)})

\* the loaded records whose confidence is none of the three words
OtherConfidence ==
  LET recs == AllRecords(all_analyses)
  IN {k \in 1..Len(recs) :
        Get(recs[k].analysis, "confidence", NoneValue)
          \notin {Lit("high"), Lit("medium"), Lit("low")}}

\* C22: the global confidence histogram always has exactly the three
\* buckets high, medium and low; each bucket equals the number of records,
\* over all loaded artifacts, whose confidence is exactly that value; any
\* other confidence value (absent, differently cased, unknown) changes no
\* bucket and adds no bucket.
C22_ConfidenceHistogram ==
  Concluded =>
    LET h == consensus.confidence_distribution
        recs == AllRecords(all_analyses)
    IN /\ DOMAIN h = {"high", "medium", "low"}
       /\ h.high = WithConfidence("high")
       /\ h.medium = WithConfidence("medium")
       /\ h.low = WithConfidence("low")
       /\ h.high + h.medium + h.low = Len(recs) - Cardinality(OtherConfidence)

\* the loaded records hold every kind of confidence: high, medium, low,
\* High, and none at all
C22_Witness ==
  /\ Concluded
  /\ consensus.confidence_distribution = [high |-> 1, medium |-> 1, low |-> 1]
  /\ LET recs == AllRecords(all_analyses)
     IN /\ \E k \in 1..Len(recs) : Get(recs[k].analysis, "confidence", NoneValue) = Lit("High")
        /\ \E k \in 1..Len(recs) : "confidence" \notin DOMAIN recs[k].analysis

----------------------------------------------------------------------------
(* C23: synthesis is a full rebuild *)

\* what load_analysis gives for the artifacts of a disk that can be loaded,
\* in the order of the static list
RECURSIVE Present(_, _)
Present(files, k) ==
  IF k > Len(files) THEN <<>>
  ELSE (IF files[k].kind = "written"
        THEN <<[model |-> models[k].name, analyses |-> files[k].output.data.analyses]>>
        ELSE <<>>) \o Present(files, k + 1)

\* the four parts of the synthesized artifact that a run over the loaded
\* artifacts produces
Produced(loaded) ==
  [articles |-> synthesize_perspectives(loaded),
   count |-> Len(synthesize_perspectives(loaded)),
   consensus |-> calculate_consensus(loaded),
   models |-> ModelNames]

\* C23: synthesis is a full rebuild and idempotent: the articles, the
\* per-article consensus, the global consensus and the model list a run
\* produces are a function only of the per-model artifacts on disk at that
\* run, whatever an earlier run held or wrote (the run is the first, or
\* follows a run over the same artifacts, or finds the synthesized artifact
\* of a run over other artifacts); every run over the same artifacts writes
\* the same four parts again; no run changes a per-model artifact.
C23_FullRebuild ==
  /\ [](spc = "done" =>
          /\ perspectives.kind = "written"
          /\ perspectives.output.data = Produced(Present(artifacts, 1)))
  /\ [][/\ artifacts' = artifacts
        /\ (spc = "save" /\ spc' = "done" /\ perspectives.kind = "written"
              /\ perspectives.output # EarlierOutput)
             => perspectives'.output.data = perspectives.output.data]_vars

\* a second run is about to write again over what the first one wrote, two
\* artifacts loaded, one unreadable, the other five not on disk
C23_Witness ==
  /\ spc = "save"
  /\ perspectives.kind = "written"
  /\ perspectives.output # EarlierOutput
  /\ Len(all_analyses) = 2
  /\ Len(synthesized) = 1
  /\ Len(synthesized[1].perspectives) = 2
  /\ \E k \in 1..Len(skipped) : skipped[k].why = "error loading"
  /\ perspectives.output.data.articles = synthesized

----------------------------------------------------------------------------
(* C24: the repair passes run twice *)

\* the records of the repaired file after run n of the history
AfterRun(n) ==
  IF n = Len(repairs)
  THEN artifacts[repairs[n].path].output.data.analyses
  ELSE repairs[n + 1].before

\* run n is the same pass as the completed run before it
SamePassAgain(n) ==
  /\ n \in 2..Len(repairs)
  /\ repairs[n].pass = repairs[n - 1].pass
  /\ repairs[n].path = repairs[n - 1].path
  /\ repairs[n - 1].raised = ""

\* C24: each repair pass is idempotent on every artifact: after one run of
\* fix_analysis_file on a file, a second run of the same pass fixes zero
\* records and leaves the file content identical, also when the JSON
\* recovered from key_points[0] itself has a summary beginning with { or a
\* fence and a non-empty key_points.
C24_RepairIdempotent ==
  \A n \in 1..Len(repairs) :
    SamePassAgain(n) =>
      /\ ~repairs[n].wrote
      /\ repairs[n].raised = "" => repairs[n].fixed_count = 0
      /\ AfterRun(n) = repairs[n].before

----------------------------------------------------------------------------
(* C25: when a repair pass writes *)

\* the stripped summary of a record, empty when there is none to strip
SummaryText(item) ==
  IF IsDictAnalysis(item.analysis) /\ Get(item.analysis, "summary", NoneValue).t = "str"
  THEN Strip(item.analysis["summary"].s)
  ELSE <<>>

\* the record has a non-empty key_points
HasKeyPoints(item) ==
  /\ IsDictAnalysis(item.analysis)
  /\ "key_points" \in DOMAIN item.analysis
  /\ item.analysis["key_points"] \notin {List(<<>>), Str(<<>>), Dict(EmptyDict)}

\* the detection signature of a pass
MatchesSignature(pass, item) ==
  /\ HasKeyPoints(item)
  /\ IF pass = "json"
     THEN StartsWith(SummaryText(item), "{") \/ StartsWith(SummaryText(item), "JR")
     ELSE StartsWith(SummaryText(item), "FENCE") \/ HasJsonFence(SummaryText(item))

\* the positions of the records that run n changed
ChangedBy(n) ==
  {r \in 1..Len(repairs[n].before) : AfterRun(n)[r] # repairs[n].before[r]}

\* C25: a repair pass writes the artifact back if and only if at least one
\* record was changed by that run; when zero fixes apply (no record matches
\* the signature, or every matching record fails extraction) the file is
\* not opened for writing and its content is untouched; records that do not
\* match the detection signature are identical before and after every run.
C25_WritesOnlyFixes ==
  \A n \in 1..Len(repairs) :
    LET before == repairs[n].before IN
    /\ Len(AfterRun(n)) = Len(before)
    /\ repairs[n].wrote <=> ChangedBy(n) # {}
    /\ (repairs[n].raised = "" /\ repairs[n].fixed_count = 0) =>
         ~repairs[n].wrote /\ AfterRun(n) = before
    /\ (\A r \in 1..Len(before) : ~MatchesSignature(repairs[n].pass, before[r])) =>
         ~repairs[n].wrote
    /\ \A r \in 1..Len(before) :
         ~MatchesSignature(repairs[n].pass, before[r]) => AfterRun(n)[r] = before[r]

\* pass (a) fixed one record of two and wrote, leaving alone a matching
\* record it could not extract from; its second run met that record again,
\* counted no fix and did not write
C25_Witness ==
  /\ Len(repairs) = 2
  /\ repairs[1].pass = "json" /\ repairs[2].pass = "json"
  /\ repairs[1].wrote /\ repairs[1].fixed_count = 1
  /\ Len(repairs[1].before) = 2
  /\ ChangedBy(1) = {1}
  /\ MatchesSignature("json", repairs[1].before[2])
  /\ repairs[2].raised = "" /\ repairs[2].fixed_count = 0 /\ ~repairs[2].wrote
  /\ MatchesSignature("json", repairs[2].before[2])

----------------------------------------------------------------------------
(* C26: pass (b) is strict *)

\* key_points[0] of a record with non-empty key_points, without its fences
Unfenced(item) == strip_code_fences(FirstOf(item.analysis["key_points"]).val.s)

\* the records of a file that match the signature of pass (b) and whose
\* unfenced key_points[0] is JSON as it stands
ParsesStrictly(items) ==
  {r \in 1..Len(items) : /\ MatchesSignature("fences", items[r])
                         /\ Loads(Unfenced(items[r])).ok}

\* C26: pass (b) is strict: a record matching its signature (summary begins
\* with a fence marker or has a json fence marker in its first 100
\* characters, key_points non-empty) is replaced only when the
\* fence-stripped key_points[0] parses directly as JSON, and is then
\* replaced by the parsed value; if that parse fails the record stays
\* unchanged and is not counted as fixed, also where the text between the
\* first { and its matching } would parse, and the records after it are
\* processed all the same.
C26_FencesStrict ==
  \A n \in 1..Len(repairs) :
    (repairs[n].pass = "fences" /\ repairs[n].raised = "") =>
      LET before == repairs[n].before
          after == AfterRun(n)
      IN /\ repairs[n].fixed_count = Cardinality(ParsesStrictly(before))
         /\ \A r \in 1..Len(before) :
              IF r \in ParsesStrictly(before)
              THEN /\ after[r].analysis = AsStored(Loads(Unfenced(before[r])).val)
                   /\ after[r].article = before[r].article
              ELSE after[r] = before[r]

\* pass (b) met a matching record whose key_points[0] is prose and an
\* object after an opening fence (no JSON as it stands, though the braces
\* would give one), left it, and fixed the record after it
C26_Witness ==
  /\ Len(repairs) = 1
  /\ repairs[1].pass = "fences"
  /\ repairs[1].raised = ""
  /\ Len(repairs[1].before) = 2
  /\ MatchesSignature("fences", repairs[1].before[1])
  /\ ~Loads(Unfenced(repairs[1].before[1])).ok
  /\ BraceParse(Unfenced(repairs[1].before[1])).ok
  /\ repairs[1].fixed_count = 1
  /\ ChangedBy(1) = {2}

----------------------------------------------------------------------------
(* C27: what a repair leaves alone *)

\* the fields of an Analysis that no repair is to touch
Metadata == {"model", "model_id", "analyzed_at", "token_usage"}

\* the Analysis a carries all the metadata that b carries, with the same
\* values
KeepsMetadata(a, b) ==
  /\ IsDictAnalysis(a)
  /\ \A f \in Metadata \cap DOMAIN b : f \in DOMAIN a /\ a[f] = b[f]

\* C27: every repair pass preserves what it does not repair in a fixed
\* record: after a fix the record's article is unchanged and the Analysis
\* still carries the same model, model_id, analyzed_at and (when present)
\* token_usage as before the fix.
C27_MetadataPreserved ==
  \A n \in 1..Len(repairs) :
    \A r \in ChangedBy(n) :
      /\ AfterRun(n)[r].article = repairs[n].before[r].article
      /\ KeepsMetadata(AfterRun(n)[r].analysis, repairs[n].before[r].analysis)

----------------------------------------------------------------------------
(* C28: the two repair passes in either order *)

\* the records a file holds after the two passes were run on it, first
\* then second
AfterBoth(first, second, records) ==
  fix_analysis_file(second, fix_analysis_file(first, records).records).records

\* C28: the two repair passes commute: for every artifact, also one with a
\* record matching both signatures (summary beginning with the bold JSON
\* Response preamble followed by a json fence), running pass (a) then pass
\* (b) leaves the same file content as running pass (b) then pass (a).
C28_PassesCommute ==
  \A n \in 2..Len(repairs) :
    (repairs[n - 1].pass # repairs[n].pass /\ repairs[n - 1].path = repairs[n].path) =>
      AfterRun(n) = AfterBoth(repairs[n].pass, repairs[n - 1].pass, repairs[n - 1].before)

----------------------------------------------------------------------------
(* C29: synthesis conserves the records *)

\* the position of a model's display name in the static list
ModelPosition(name) == CHOOSE k \in 1..Len(models) : models[k].name = name

\* C29: synthesis conserves records: every record of every loaded artifact
\* is exactly one PerspectiveEntry of exactly one SynthesizedArticle, so the
\* sum of models_analyzed over all articles equals the number of loaded
\* records and equals the global total_analyses (the value written as
\* total_perspectives); within an article the entries are in static
\* model-list order and the article's Item is that of the first
\* contributing record.
C29_RecordsConserved ==
  Concluded =>
    LET recs == AllRecords(all_analyses) IN
    /\ SumSeq([a \in 1..Len(synthesized) |-> synthesized[a].consensus.models_analyzed])
         = Len(recs)
    /\ consensus.total_analyses = Len(recs)
    /\ \A a \in 1..Len(synthesized) :
         LET mine == RecordsOf(JoinKey(synthesized[a].article))
             entries == synthesized[a].perspectives
         IN /\ Len(entries) = Len(mine)
            /\ synthesized[a].article = mine[1].article
            /\ \A k \in 1..Len(entries) : entries[k].model = mine[k].model
            /\ \A k, m \in 1..Len(entries) :
                 k < m => ModelPosition(entries[k].model) <= ModelPosition(entries[m].model)

----------------------------------------------------------------------------
(* C30: fetched items and their join keys *)

\* the Items of the fetch-stage artifact have pairwise distinct join keys
DistinctJoinKeys(items) ==
  \A j, k \in 1..Len(items) : j # k => JoinKey(items[j]) # JoinKey(items[k])

\* C30: for per-model artifacts produced by ModelAnalyzer runs over the
\* fetch-stage artifact written by the news fetcher (several topics, ids
\* news_<index within topic>_<unix second>, duplicates dropped by title
\* only), distinct fetched items have distinct join keys, no
\* SynthesizedArticle holds two PerspectiveEntries from the same model, and
\* its models_analyzed never exceeds the number of loaded models.
C30_DistinctJoinKeys ==
  /\ news.kind = "written" => DistinctJoinKeys(news.output.data.articles)
  /\ (fpc = "done" /\ Concluded) =>
       \A a \in 1..Len(synthesized) :
         /\ \A j, k \in 1..Len(synthesized[a].perspectives) :
              j # k => synthesized[a].perspectives[j].model # synthesized[a].perspectives[k].model
         /\ synthesized[a].consensus.models_analyzed <= Len(all_analyses)

====
